---- MODULE Spec2Model ----
(***************************************************************************)
(* The Yjs WebSocket relay of code-editor-server/src/yjs-server.ts:        *)
(* the registry `docs`, the rooms (WSSharedDoc: conns, the Y.Doc and its   *)
(* Awareness), and the per-connection handlers installed by                *)
(* wss.on("connection"): "message", "close" and "error".                   *)
(*                                                                         *)
(* Node runs every handler to completion, so each handler is one action.   *)
(* The Document Engine (Y.Doc) is kept as the set of struct ids it has     *)
(* integrated; the Presence Engine (Awareness) as its `states` and `meta`  *)
(* maps.  The engines' timers (awareness renewal / outdated sweep) are not *)
(* part of the relay and are not modelled.                                 *)
(***************************************************************************)
EXTENDS Integers, Sequences, FiniteSets, TLC

\* ---------------------------------------------------------------- bounds
NumConns == 2          \* connections the server accepts in one run
MaxFrames == 1         \* frames received in one run
MaxCloseSignals == 2   \* "close" signals delivered to one connection (SpecDup)
MaxOrderFrames == 2    \* frames received in one run of SpecOrder
FanoutConns == 3       \* connections the server accepts in one run of SpecFanout
MaxEffectRuns == 3     \* runs of the Editor's container effect (SpecEditor)
MaxSyncEvents == 2     \* 'sync' events of a provider (SpecEditor)
MaxManagerCalls == 4   \* direct calls of each Manager method (SpecManager)
MaxCollabCalls == 3    \* direct calls of Collaboration methods (SpecCollaboration)
MaxDocLen == 2         \* characters of the document completed in, and of the shared text
MaxSuggestionLen == 52 \* characters of a suggestion received (SpecAutocomplete)
MaxRoomIdLen == 5      \* characters typed into the join field (SpecHome)
MaxJoins == 1          \* calls of Home.joinRoom (SpecHome)
MaxManagerOps == 2     \* calls of the Manager's delegating methods (SpecManager)
MaxTargetLen == 4      \* characters of a request target (SpecRoomName)

\* ------------------------------------------------------- program constants
messageSync == 0
messageAwareness == 1
LabelLimit == 50       \* suggestionText.length > 50
MinRoomIdLen == 3      \* trim().length >= 3

\* ------------------------------------------------------------ input domains
Default == <<"d", "e", "f", "a", "u", "l", "t">>

\* req.url values (strings as sequences of characters); <<>> is a missing url
Targets == { <<"/", "X">>, <<"/">>, <<>> }

\* Request targets as the HTTP parser hands them over: missing, or starting
\* with "/" (origin form) or with "*" (asterisk form); the characters stand
\* for the separator, the asterisk and an upper- and a lower-case letter.
TargetChars == {"/", "*", "X", "x"}
TargetStrings ==
    { t \in UNION { [1..n -> TargetChars] : n \in 0..MaxTargetLen } :
        t = <<>> \/ t[1] \in {"/", "*"} }

UpdateIds == {"s1"}            \* structs a client may put into an update

\* JSON values: what JSON.parse can yield for the `conn` field of a state.
\* A parsed value is never a WebSocket object; WsRef(c) is the server-side
\* handle of connection c.
Undefined == [kind |-> "undefined", id |-> 0]
JsonNum(n) == [kind |-> "number", id |-> n]
WsRef(c) == [kind |-> "ws", id |-> c]

Null == [isNull |-> TRUE, user |-> "", conn |-> Undefined]
EmptyState == [isNull |-> FALSE, user |-> "", conn |-> Undefined]   \* {}
Ann == [isNull |-> FALSE, user |-> "Ann", conn |-> Undefined]       \* {user: "Ann"}
AnnConn == [isNull |-> FALSE, user |-> "Ann", conn |-> JsonNum(1)]  \* {user: "Ann", conn: 1}

Entry(id, clock, state) == [clientID |-> id, clock |-> clock, state |-> state]

\* The entry lists of the Presence frames clients send: client 7 set (first or
\* second clock) or removed, or clients 7 and 8 set in one frame.
Pair78 == <<Entry(7, 1, Ann), Entry(8, 1, Ann)>>
EntryLists ==
    { <<Entry(7, 1, Ann)>>, <<Entry(7, 1, AnnConn)>>, <<Entry(7, 2, Ann)>>,
      <<Entry(7, 1, Null)>>, Pair78 }

\* The entry lists whose payload may also arrive cut short.
TruncatedLists == { <<Entry(7, 1, Ann)>> }

VARIABLES
    docs,          \* Map<string, WSSharedDoc>: room name -> instance id
    room,          \* instance id -> the WSSharedDoc constructed with that id
    conn,          \* accepted connection -> its closure (roomName, doc) and transport state
    out,           \* accepted connection -> envelopes handed to conn.send, in order
    frames,        \* one record per frame received: its connection, and whether an
                   \* engine 'update' event fired while it was handled
    closeSignals,  \* connection -> "close" signals handled
    publisher,     \* <<instance, clientID>> of a held presence entry -> index (in
                   \* frames) of the frame that last wrote it
    target,        \* the request target whose room name is resolved (SpecRoomName)
    resolved,      \* the outcome of that resolution, once made
    providers,     \* the WebsocketProviders constructed so far, in order
    collab,        \* Collaboration: provider (index, 0: undefined), isInitialized
    mgr,           \* Manager: editorView (view id, 0: undefined), isInitialized
    cmSetup,       \* CodeMirrorSetup: views created, destroyEditor calls
    editor,        \* Editor: editorInitialized, whether ngOnDestroy ran, effect runs
    tasks,         \* asynchronous calls in flight, by the await they are parked at
    calls,         \* calls made so far of Manager.initializeEditor (by the Editor
                   \* and directly), of Manager.destroyEditor (and those of them
                   \* made after a view was destroyed and while none was held),
                   \* 'sync' events, and direct calls of Collaboration methods
    ops,           \* the Manager's delegating methods: the source file the
                   \* Manager is built from, calls made, last value returned
    completion,    \* one run of the completion source: its context (explicit,
                   \* doc, pos), where the run stands, the HTTP requests
                   \* issued, the promise it returned
    home           \* Home: joinRoomId, the router.navigate calls, joinRoom calls

serverVars == <<docs, room, conn, out, frames, closeSignals, publisher>>
nameVars == <<target, resolved>>
clientVars == <<providers, collab, mgr, cmSetup, editor, tasks, calls>>
serviceVars == <<ops>>
pageVars == <<completion, home>>
nonServerVars == <<nameVars, clientVars, serviceVars, pageVars>>
vars == <<serverVars, nameVars, clientVars, serviceVars, pageVars>>

Conns == 1..NumConns

\* ------------------------------------------------------------- Map helpers
Has(m, k) == k \in DOMAIN m
Set(m, k, v) == [x \in DOMAIN m \cup {k} |-> IF x = k THEN v ELSE m[x]]
Delete(m, k) == [x \in DOMAIN m \ {k} |-> m[x]]
Get(m, k, dflt) == IF k \in DOMAIN m THEN m[k] ELSE dflt

\* ------------------------------------------------------------------ frames
\* A frame as the decoder sees it.  len = 0 is the zero-length frame; tagOk is
\* whether readVarUint can read the tag; bodyOk is whether the rest of the
\* payload decodes (FALSE: a read past the end throws).  sub is the sync
\* message type read by readSyncMessage.
SyncSubs == {"step1", "step2", "update", "unknown"}

NoBody == [sub |-> "unknown", ids |-> {}, entries |-> <<>>]

EmptyFrame == [len |-> 0, tagOk |-> FALSE, tag |-> messageSync, bodyOk |-> FALSE] @@ NoBody
BadTagFrame == [len |-> 1, tagOk |-> FALSE, tag |-> messageSync, bodyOk |-> FALSE] @@ NoBody
UnknownTagFrame == [len |-> 1, tagOk |-> TRUE, tag |-> messageAwareness + 1, bodyOk |-> TRUE] @@ NoBody

SyncFrames ==
    { [len |-> 2, tagOk |-> TRUE, tag |-> messageSync, bodyOk |-> TRUE,
       sub |-> s, ids |-> i, entries |-> <<>>] :
         s \in SyncSubs \ {"unknown"}, i \in SUBSET UpdateIds }
    \cup { [len |-> 2, tagOk |-> TRUE, tag |-> messageSync, bodyOk |-> FALSE,
            sub |-> "update", ids |-> UpdateIds, entries |-> <<>>],
           [len |-> 2, tagOk |-> TRUE, tag |-> messageSync, bodyOk |-> TRUE,
            sub |-> "unknown", ids |-> {}, entries |-> <<>>] }

AwarenessFrame(es, ok) ==
    [len |-> 2, tagOk |-> TRUE, tag |-> messageAwareness, bodyOk |-> ok,
     sub |-> "unknown", ids |-> {}, entries |-> es]
AwarenessFrames ==
    { AwarenessFrame(es, TRUE) : es \in EntryLists }
      \cup { AwarenessFrame(es, FALSE) : es \in TruncatedLists }

Frames == {EmptyFrame, BadTagFrame, UnknownTagFrame} \cup SyncFrames \cup AwarenessFrames

\* --------------------------------------------------------------- envelopes
\* What is handed to conn.send.  tag/sub/ids/entries are the encoded message;
\* doc, origin and frame record which room instance emitted it, the origin
\* the engine reported (0: none) and the frame being handled (0: none).
Envelope(tag, sub, ids, entries, d, origin, frame) ==
    [tag |-> tag, sub |-> sub, ids |-> ids, entries |-> entries,
     doc |-> d, origin |-> origin, frame |-> frame, failed |-> FALSE]

\* The same envelopes when conn.send reports an error to its callback.
Failed(msgs) == [i \in 1..Len(msgs) |-> [msgs[i] EXCEPT !.failed = TRUE]]

\* ------------------------------------------------------------------- rooms
\* The clientID Y.Doc draws at random for the server-side document.
LocalClientID(d) == 100 + d

\* new WSSharedDoc(name): an empty Y.Doc, no connections, and an Awareness whose
\* constructor publishes the local state {} under the document's clientID.
WSSharedDoc(name, d) ==
    [name |-> name, conns |-> {}, ydoc |-> {},
     states |-> (LocalClientID(d) :> EmptyState),
     clock |-> (LocalClientID(d) :> 0),
     destroyed |-> FALSE]

\* Variants of getYDoc with a plausible slip: the registry is not consulted;
\* the new instance is not registered.
getYDocAlwaysNew(dcs, rms, docname) ==
    LET d == Cardinality(DOMAIN rms) + 1
    IN [doc |-> d, docs |-> Set(dcs, docname, d),
        room |-> Set(rms, d, WSSharedDoc(docname, d))]
\* Variant with a plausible slip: the lookup ignores the name while any room
\* is registered.
getYDocAnyRoom(dcs, rms, docname) ==
    IF DOMAIN dcs # {}
    THEN [doc |-> dcs[CHOOSE n \in DOMAIN dcs : TRUE], docs |-> dcs, room |-> rms]
    ELSE LET d == Cardinality(DOMAIN rms) + 1
         IN [doc |-> d, docs |-> Set(dcs, docname, d),
             room |-> Set(rms, d, WSSharedDoc(docname, d))]
getYDocUnregistered(dcs, rms, docname) ==
    IF Has(dcs, docname)
    THEN [doc |-> dcs[docname], docs |-> dcs, room |-> rms]
    ELSE LET d == Cardinality(DOMAIN rms) + 1
         IN [doc |-> d, docs |-> dcs, room |-> Set(rms, d, WSSharedDoc(docname, d))]

\* getYDoc(docname): the registered instance, or a new one registered at once.
\* Yields the instance id with the registry and the instances afterwards.
getYDoc(dcs, rms, docname) ==
    IF Has(dcs, docname)
    THEN [doc |-> dcs[docname], docs |-> dcs, room |-> rms]
    ELSE LET d == Cardinality(DOMAIN rms) + 1
         IN [doc |-> d, docs |-> Set(dcs, docname, d),
             room |-> Set(rms, d, WSSharedDoc(docname, d))]

\* req.url || "/"  and  urlPath.substring(1) || "default"
UrlPath(url) == IF url = <<>> THEN <<"/">> ELSE url
RoomName(url) ==
    LET rest == SubSeq(UrlPath(url), 2, Len(UrlPath(url)))
    IN IF rest = <<>> THEN Default ELSE rest

\* Variants of the fan-out loop with a plausible slip: no origin test; every
\* open connection of the server instead of the room's own.
RecipientsWithOrigin(r, origin, cn) ==
    { c \in r.conns : cn[c].readyState = "OPEN" }
RecipientsAllRooms(r, origin, cn) ==
    { c \in DOMAIN cn : c # origin /\ cn[c].readyState = "OPEN" }

\* Variant of the fan-out loop with a plausible slip: a member that is not
\* writable aborts the loop for everyone.
RecipientsUnlessStalled(r, origin, cn) ==
    IF \E c \in r.conns \ {origin} : cn[c].readyState # "OPEN"
    THEN {}
    ELSE { c \in r.conns : c # origin }

\* The fan-out loop of both 'update' handlers: every connection of the room
\* other than the origin whose readyState is OPEN.
Recipients(r, origin, cn) ==
    { c \in r.conns : c # origin /\ cn[c].readyState = "OPEN" }

\* conn.send(message) to every connection in `to`.
Deliver(o, to, msgs) ==
    [c \in DOMAIN o |-> IF c \in to THEN o[c] \o msgs ELSE o[c]]

\* Variant of send with a plausible slip: the reply goes to every open
\* connection.
SendToEveryone(c, cn) == { x \in DOMAIN cn : cn[x].readyState = "OPEN" }

\* Variant of send with a plausible slip: the test of readyState is missing.
SendToAlways(c, cn) == {c}

\* send(message): only when this connection is OPEN.
SendTo(c, cn) == IF cn[c].readyState = "OPEN" THEN {c} ELSE {}

\* --------------------------------------------------------- Document Engine
\* Y.applyUpdate(doc, update, origin): integrates the structs the document
\* lacks; the 'update' event fires only when the transaction changed something
\* and carries exactly the new structs.
ApplyUpdate(ydoc, ids) ==
    [ydoc |-> ydoc \cup ids, emitted |-> ids \ ydoc # {}, update |-> ids \ ydoc]

\* Variant of encodeStateAsUpdate with a plausible slip: the difference is
\* taken the wrong way round (what the peer already holds).
EncodeStateAsUpdateHeld(ydoc, sv) == ydoc \cap sv

\* Y.encodeStateAsUpdate(doc, sv): what the document holds beyond sv.
EncodeStateAsUpdate(ydoc, sv) == ydoc \ sv

\* --------------------------------------------------------- Presence Engine
\* One iteration of the loop of applyAwarenessUpdate on entry e, with
\* a = [states, clock, added, updated, removed].
ApplyEntry(a, e, localId) ==
    LET id == e.clientID
        known == Has(a.clock, id)
        currClock == Get(a.clock, id, 0)
        accept == \/ currClock < e.clock
                  \/ currClock = e.clock /\ e.state = Null /\ Has(a.states, id)
        keepLocal == e.state = Null /\ id = localId /\ Has(a.states, localId)
        clock2 == IF keepLocal THEN e.clock + 1 ELSE e.clock
        states2 == IF e.state = Null
                   THEN (IF keepLocal THEN a.states ELSE Delete(a.states, id))
                   ELSE Set(a.states, id, e.state)
    IN IF ~accept THEN a
       ELSE [states |-> states2,
             clock |-> Set(a.clock, id, clock2),
             added |-> IF ~known /\ e.state # Null THEN Append(a.added, id) ELSE a.added,
             removed |-> IF known /\ e.state = Null THEN Append(a.removed, id) ELSE a.removed,
             updated |-> IF known /\ e.state # Null THEN Append(a.updated, id) ELSE a.updated]

RECURSIVE ApplyEntries(_, _, _)
ApplyEntries(a, es, localId) ==
    IF es = <<>> THEN a
    ELSE ApplyEntries(ApplyEntry(a, Head(es), localId), Tail(es), localId)

\* encodeAwarenessUpdate(awareness, clients): for each listed client its
\* current clock and state (null when it has none).
EncodeAwarenessUpdate(states, clock, clients) ==
    [i \in 1..Len(clients) |->
        [clientID |-> clients[i], clock |-> Get(clock, clients[i], 0),
         state |-> Get(states, clients[i], Null)]]

\* applyAwarenessUpdate(awareness, update, origin) on room r.  The entries are
\* applied one by one; a payload that ends early (ok = FALSE) throws after the
\* entries it held were applied and before any event is emitted.
\* Yields the room afterwards, whether it threw, and the changed clients of the
\* 'update' event (<<>>: no event).
ApplyAwarenessUpdate(r, es, ok, d) ==
    LET a == ApplyEntries([states |-> r.states, clock |-> r.clock,
                           added |-> <<>>, updated |-> <<>>, removed |-> <<>>],
                          es, LocalClientID(d))
        r2 == [r EXCEPT !.states = a.states, !.clock = a.clock]
    IN [room |-> r2, threw |-> ~ok,
        changed |-> IF ok THEN a.added \o a.updated \o a.removed ELSE <<>>]

\* removeAwarenessStates(awareness, clients, origin): deletes the listed
\* clients that have a state; the local client's clock is bumped.
RemoveAwarenessStates(r, clients, d) ==
    LET removed == clients \cap DOMAIN r.states
        lid == LocalClientID(d)
    IN [room |-> [r EXCEPT
                    !.states = [x \in DOMAIN r.states \ removed |-> r.states[x]],
                    !.clock = IF lid \in removed THEN Set(r.clock, lid, r.clock[lid] + 1)
                              ELSE r.clock],
        removed |-> removed]

\* Variant of doc.destroy() with a plausible slip: the call is missing.
DestroyMissing(r, d) == r

\* doc.destroy(): Y.Doc emits 'destroy', on which the Awareness destroys
\* itself (setLocalState(null)), and then drops every observer; a second call
\* finds no observer and does nothing.
Destroy(r, d) ==
    IF r.destroyed THEN r
    ELSE LET lid == LocalClientID(d)
         IN [r EXCEPT !.destroyed = TRUE,
                      !.states = Delete(r.states, lid),
                      !.clock = Set(r.clock, lid, Get(r.clock, lid, 0) + 1)]

\* The awareness 'update' handler: one Presence envelope for the changed clients.
AwarenessEnvelope(r, changed, d, origin, frame) ==
    Envelope(messageAwareness, "awareness", {},
             EncodeAwarenessUpdate(r.states, r.clock, changed), d, origin, frame)

\* The document 'update' handler: one Sync envelope carrying the update.
UpdateEnvelope(update, d, origin, frame) ==
    Envelope(messageSync, "update", update, <<>>, d, origin, frame)

\* --------------------------------------------------------------- dispatch
\* The body of conn.on("message") for frame f of connection c, whose closure
\* holds room instance d (r is that room).  Yields the room afterwards, the
\* envelope passed to send() for the sender (reply), the envelope the engine's
\* 'update' event broadcasts (bcast), each <<>> or one envelope, and whether the
\* try block threw.
\* Variant of Thrown with a plausible slip: the exception is not caught and
\* takes the room's connections down.
ThrownCrashes(r) ==
    [room |-> [r EXCEPT !.conns = {}], reply |-> <<>>, bcast |-> <<>>, threw |-> TRUE]

Quiet(r) == [room |-> r, reply |-> <<>>, bcast |-> <<>>, threw |-> FALSE]
Thrown(r) == [room |-> r, reply |-> <<>>, bcast |-> <<>>, threw |-> TRUE]

ReadSyncMessage(r, f, c, d, k) ==
    CASE f.sub = "unknown" -> Thrown(r)
      [] ~f.bodyOk -> Thrown(r)
      [] f.sub = "step1" ->
            [Quiet(r) EXCEPT !.reply =
                <<Envelope(messageSync, "step2", EncodeStateAsUpdate(r.ydoc, f.ids),
                           <<>>, d, 0, k)>>]
      [] OTHER ->
            LET u == ApplyUpdate(r.ydoc, f.ids)
            IN [Quiet([r EXCEPT !.ydoc = u.ydoc]) EXCEPT !.bcast =
                   IF u.emitted THEN <<UpdateEnvelope(u.update, d, c, k)>> ELSE <<>>]

\* Variant of the switch with a plausible slip: the two cases are swapped.
DispatchSwapped(r, f, c, d, k) ==
    IF f.len = 0 THEN Quiet(r)
    ELSE IF ~f.tagOk THEN Thrown(r)
    ELSE CASE f.tag = messageAwareness -> ReadSyncMessage(r, f, c, d, k)
           [] f.tag = messageSync ->
                LET p == ApplyAwarenessUpdate(r, f.entries, f.bodyOk, d)
                IN [room |-> p.room, reply |-> <<>>, threw |-> p.threw,
                    bcast |-> IF p.changed # <<>>
                              THEN <<AwarenessEnvelope(p.room, p.changed, d, c, k)>>
                              ELSE <<>>]
           [] OTHER -> Quiet(r)

Dispatch(r, f, c, d, k) ==
    IF f.len = 0 THEN Quiet(r)
    ELSE IF ~f.tagOk THEN Thrown(r)
    ELSE CASE f.tag = messageSync -> ReadSyncMessage(r, f, c, d, k)
           [] f.tag = messageAwareness ->
                LET p == ApplyAwarenessUpdate(r, f.entries, f.bodyOk, d)
                IN [room |-> p.room, reply |-> <<>>, threw |-> p.threw,
                    bcast |-> IF p.changed # <<>>
                              THEN <<AwarenessEnvelope(p.room, p.changed, d, c, k)>>
                              ELSE <<>>]
           [] OTHER -> Quiet(r)

\* How the message handler left a frame: "dropped" (length 0, or a tag no case
\* of the switch matches: no engine saw it), "threw" (decoding or the engine
\* threw and the catch block swallowed it) or "handled".
Fate(f, p) ==
    IF f.len = 0 THEN "dropped"
    ELSE IF p.threw THEN "threw"
    ELSE IF f.tag \notin {messageSync, messageAwareness} THEN "dropped"
    ELSE "handled"

\* ------------------------------------------------------- the close handler
RECURSIVE SortedSeq(_)
SortedSeq(S) ==
    IF S = {} THEN <<>>
    ELSE LET m == CHOOSE x \in S : \A y \in S : x <= y
         IN <<m>> \o SortedSeq(S \ {m})

\* The filter of the close handler: the client ids whose state is truthy and
\* whose `conn` property is this connection object.
OwnedStates(r, c) ==
    { id \in DOMAIN r.states : ~r.states[id].isNull /\ r.states[id].conn = WsRef(c) }

\* Variants of the close handler with a plausible slip: the registry entry is
\* kept when the room empties; the registry entry is deleted on every close.
CloseHandlerKeepsEntry(dcs, rms, c, roomName, d) ==
    LET r1 == [rms[d] EXCEPT !.conns = @ \ {c}]
    IN [docs |-> dcs,
        room |-> [rms EXCEPT ![d] = IF r1.conns = {} THEN Destroy(r1, d) ELSE r1],
        bcast |-> <<>>]
CloseHandlerAlwaysDeletes(dcs, rms, c, roomName, d) ==
    LET r1 == [rms[d] EXCEPT !.conns = @ \ {c}]
    IN [docs |-> Delete(dcs, roomName),
        room |-> [rms EXCEPT ![d] = IF r1.conns = {} THEN Destroy(r1, d) ELSE r1],
        bcast |-> <<>>]

\* Variant of the close handler with a plausible slip: docs.clear() for
\* docs.delete(roomName).
CloseHandlerClearsRegistry(dcs, rms, c, roomName, d) ==
    LET r1 == [rms[d] EXCEPT !.conns = @ \ {c}]
    IN IF r1.conns = {}
       THEN [docs |-> << >>, room |-> [rms EXCEPT ![d] = Destroy(r1, d)],
             bcast |-> <<>>]
       ELSE [docs |-> dcs, room |-> [rms EXCEPT ![d] = r1], bcast |-> <<>>]

\* Variant of the close handler with a plausible slip: doc.conns.delete(conn)
\* is missing.
CloseHandlerKeepsMember(dcs, rms, c, roomName, d) ==
    [docs |-> dcs, room |-> rms, bcast |-> <<>>]

\* The body of conn.on("close") for connection c with closure (roomName, d).
\* Yields the registry and the instances afterwards and the envelope the
\* awareness 'update' event broadcasts (origin null), <<>> if none.
CloseHandler(dcs, rms, c, roomName, d) ==
    LET r1 == [rms[d] EXCEPT !.conns = @ \ {c}]
        rem == RemoveAwarenessStates(r1, OwnedStates(r1, c), d)
        r2 == rem.room
        bcast == IF rem.removed # {}
                 THEN <<AwarenessEnvelope(r2, SortedSeq(rem.removed), d, 0, 0)>>
                 ELSE <<>>
    IN IF r2.conns = {}
       THEN [docs |-> Delete(dcs, roomName),
             room |-> [rms EXCEPT ![d] = Destroy(r2, d)], bcast |-> bcast]
       ELSE [docs |-> dcs, room |-> [rms EXCEPT ![d] = r2], bcast |-> bcast]

\* The body of conn.on("error").
ErrorHandler(dcs, rms, c, roomName, d) ==
    [docs |-> dcs, room |-> rms, bcast |-> <<>>]

\* ------------------------------------------------------------------ state
NotResolved == [done |-> FALSE, name |-> <<>>]

ServerInit ==
    /\ docs = << >>
    /\ room = << >>
    /\ conn = << >>
    /\ out = << >>
    /\ frames = << >>
    /\ closeSignals = << >>
    /\ publisher = << >>

NameInit == target = <<>> /\ resolved = NotResolved

\* The client services and the component as constructed.
\* The methods of Manager that delegate to CodeMirrorSetup with the held
\* view; the first two return what the setup answers.
ManagerGetters == {"getEditorContent", "getCursorPosition"}
ManagerMethods ==
    ManagerGetters \cup {"reconfigureEditor", "changeLanguage", "changeTabSize",
                         "changeLineWrapping"}

\* The two files of the repository that define class Manager.
ManagerSources == {"manager.ts", "part_010"}

\* Outcome of the last call of getCollaborationExtensions (none yet): whether
\* it threw, what it returned, and after how many calls of initialize,
\* disconnect and reconnect it was made.
NotCalled == [called |-> FALSE, threw |-> FALSE, extensions |-> << >>, after |-> 0]

ClientInit ==
    /\ providers = << >>
    /\ collab = [provider |-> 0, isInitialized |-> FALSE,
                 ydoc |-> 1, ytext |-> << >>]
    /\ mgr = [editorView |-> 0, isInitialized |-> FALSE]
    /\ cmSetup = [views |-> 0, destroyCalls |-> 0,
                  delegated |-> [m \in ManagerMethods |-> 0]]
    /\ editor = [editorInitialized |-> FALSE, destroyed |-> FALSE, effectRuns |-> 0]
    /\ tasks = [creating |-> 0, returning |-> 0, direct |-> 0]
    /\ calls = [initializeEditor |-> 0, direct |-> 0, destroyEditor |-> 0,
                destroyAgain |-> 0, sync |-> 0,
                initialize |-> 0, disconnect |-> 0, reconnect |-> 0,
                extensions |-> NotCalled]

\* The Manager's delegating methods have not been called; src names the file
\* the Manager is built from.
ServiceInit(src) ==
    ops = [source |-> src, count |-> 0, returned |-> Undefined]

\* ---------------------------------------------------------------- text
\* Strings are sequences of characters.  The characters of documents and of
\* room ids: a letter, an underscore, a space, a line break.
Chars == {"a", "_", " ", "\n"}
WordChars == {"a", "_"}          \* \w
WhiteSpace == {" ", "\n"}       \* what String.prototype.trim strips
Strings(n) == UNION { [1..k -> Chars] : k \in 0..n }

\* The suggestion texts received: n characters, each known by its offset.
Text(n) == [i \in 1..n |-> i]
Dot == 0
Ellipsis == <<Dot, Dot, Dot>>    \* "..."

\* No completion run has started, on an empty document.
NoResult == [settled |-> "pending", isNull |-> FALSE, from |-> 0, options |-> << >>]
CompletionInit(explicit, doc, pos) ==
    completion = [explicit |-> explicit, doc |-> doc, pos |-> pos,
                  phase |-> "idle", requests |-> << >>, result |-> NoResult]

\* joinRoomId holds id; joinRoom has not been called.
HomeInit(id) ==
    home = [joinRoomId |-> id, navigations |-> << >>, joins |-> 0]

PageInit == CompletionInit(FALSE, << >>, 0) /\ HomeInit(<< >>)

Init == ServerInit /\ NameInit /\ ClientInit /\ ServiceInit("manager.ts") /\ PageInit

Accepted == DOMAIN conn
Attached(c) == c \in Accepted /\ ~conn[c].closed

\* The client ids of room r whose entry differs between r and r2.
TouchedIds(r, r2) ==
    { id \in DOMAIN r.clock \cup DOMAIN r2.clock \cup DOMAIN r.states \cup DOMAIN r2.states :
        \/ Get(r.clock, id, 0) # Get(r2.clock, id, 0)
        \/ Get(r.states, id, Null) # Get(r2.states, id, Null) }

Publish(pub, d, r, r2, k) ==
    LET t == TouchedIds(r, r2)
        keys == (DOMAIN pub \ { <<d, id>> : id \in { i \in t : ~Has(r2.states, i) } })
                   \cup { <<d, id>> : id \in { i \in t : Has(r2.states, i) } }
    IN [x \in keys |-> IF x[1] = d /\ x[2] \in t THEN k ELSE pub[x]]

\* Variant of the admission messages with a plausible slip: the presence
\* snapshot is sent before the sync request.
AdmissionMessagesPresenceFirst(r, d) ==
    (IF Cardinality(DOMAIN r.states) > 0
     THEN <<Envelope(messageAwareness, "awareness", {},
                     EncodeAwarenessUpdate(r.states, r.clock, SortedSeq(DOMAIN r.states)),
                     d, 0, 0)>>
     ELSE <<>>) \o <<Envelope(messageSync, "step1", r.ydoc, <<>>, d, 0, 0)>>

\* The messages the connection handler passes to send() on admission: sync
\* step 1 with the document's state vector, then, when the awareness holds
\* any state, one awareness update covering every client id it holds.
AdmissionMessages(r, d) ==
    <<Envelope(messageSync, "step1", r.ydoc, <<>>, d, 0, 0)>>
      \o (IF Cardinality(DOMAIN r.states) > 0
          THEN <<AwarenessEnvelope(r, SortedSeq(DOMAIN r.states), d, 0, 0)>>
          ELSE <<>>)

\* wss.on("connection"): the server accepts connection c for request target
\* url, its transport being in state readyState while the handler runs; at
\* most maxConns connections are accepted in a run.
AdmitIn(url, maxConns, readyState) ==
    /\ Cardinality(Accepted) < maxConns
    /\ LET c == Cardinality(Accepted) + 1
           roomName == RoomName(url)
           g == getYDoc(docs, room, roomName)
           d == g.doc
           r == [g.room[d] EXCEPT !.conns = @ \cup {c}]
           cn == Set(conn, c, [roomName |-> roomName, doc |-> d,
                               readyState |-> readyState, closed |-> FALSE])
       IN /\ docs' = g.docs
          /\ room' = [g.room EXCEPT ![d] = r]
          /\ conn' = cn
          /\ out' = Deliver(Set(out, c, <<>>), SendTo(c, cn), AdmissionMessages(r, d))
          /\ closeSignals' = Set(closeSignals, c, 0)
    /\ UNCHANGED <<frames, publisher, nonServerVars>>

\* The transport hands connections over open.
Admit(url, maxConns) == AdmitIn(url, maxConns, "OPEN")

Connect(url) == Admit(url, NumConns)

\* conn.on("message"): connection c receives frame f; at most maxFrames frames
\* are received in a run.  The sends of a broadcast to the connections in
\* failing end with an error passed to the send callback, which ignores it.
Receive(c, f, maxFrames, failing) ==
    /\ Attached(c)
    /\ Len(frames) < maxFrames
    /\ LET d == conn[c].doc
           k == Len(frames) + 1
           p == Dispatch(room[d], f, c, d, k)
       IN /\ room' = [room EXCEPT ![d] = p.room]
          /\ failing \subseteq Recipients(p.room, c, conn)
          /\ p.bcast = <<>> => failing = {}
          /\ out' = Deliver(Deliver(Deliver(out, Recipients(p.room, c, conn) \ failing,
                                            p.bcast),
                                    failing, Failed(p.bcast)),
                            SendTo(c, conn), p.reply)
          /\ publisher' = Publish(publisher, d, room[d], p.room, k)
          /\ frames' = Append(frames, [conn |-> c, emitted |-> p.bcast # <<>>,
                                       fate |-> Fate(f, p)])
    /\ UNCHANGED <<docs, conn, closeSignals, nonServerVars>>

Message(c, f) == Receive(c, f, MaxFrames, {})

\* The transport emits "close" for connection c (once per connection).
Close(c) ==
    /\ Attached(c)
    /\ LET h == CloseHandler(docs, room, c, conn[c].roomName, conn[c].doc)
           cn == [conn EXCEPT ![c].readyState = "CLOSED", ![c].closed = TRUE]
       IN /\ docs' = h.docs
          /\ room' = h.room
          /\ conn' = cn
          /\ out' = Deliver(out, Recipients(h.room[conn[c].doc], 0, cn), h.bcast)
    /\ closeSignals' = [closeSignals EXCEPT ![c] = 1]
    /\ UNCHANGED <<frames, publisher, nonServerVars>>

\* The transport emits "error" for connection c; the socket is then closing.
Error(c) ==
    /\ Attached(c)
    /\ conn[c].readyState = "OPEN"
    /\ LET h == ErrorHandler(docs, room, c, conn[c].roomName, conn[c].doc)
           cn == [conn EXCEPT ![c].readyState = "CLOSING"]
       IN /\ docs' = h.docs
          /\ room' = h.room
          /\ conn' = cn
          /\ out' = Deliver(out, Recipients(h.room[conn[c].doc], 0, cn), h.bcast)
    /\ UNCHANGED <<frames, closeSignals, publisher, nonServerVars>>

\* A further "close" signal for a connection whose close handler already ran.
DupClose(c) ==
    /\ c \in Accepted
    /\ conn[c].closed
    /\ closeSignals[c] < MaxCloseSignals
    /\ LET h == CloseHandler(docs, room, c, conn[c].roomName, conn[c].doc)
       IN /\ docs' = h.docs
          /\ room' = h.room
          /\ out' = Deliver(out, Recipients(h.room[conn[c].doc], 0, conn), h.bcast)
    /\ closeSignals' = [closeSignals EXCEPT ![c] = @ + 1]
    /\ UNCHANGED <<conn, frames, publisher, nonServerVars>>

Next ==
    \/ \E url \in Targets : Connect(url)
    \/ \E c \in Conns, f \in Frames : Message(c, f)
    \/ \E c \in Conns : Close(c)
    \/ \E c \in Conns : Error(c)

Spec == Init /\ [][Next]_vars

NextDup ==
    \/ Next
    \/ \E c \in Conns : DupClose(c)

SpecDup == Init /\ [][NextDup]_vars

\* One room, longer exchanges: every connection asks for target "/" and sends
\* frames of a few kinds, up to MaxOrderFrames of them.
OrderFrames ==
    { EmptyFrame, BadTagFrame, UnknownTagFrame,
      AwarenessFrame(<<Entry(7, 1, Ann)>>, FALSE),
      [len |-> 2, tagOk |-> TRUE, tag |-> messageSync, bodyOk |-> TRUE,
       sub |-> "update", ids |-> UpdateIds, entries |-> <<>>],
      AwarenessFrame(<<Entry(7, 1, Ann)>>, TRUE),
      AwarenessFrame(<<Entry(7, 2, Ann)>>, TRUE) }

MessageInOrder(c, f) == Receive(c, f, MaxOrderFrames, {})

NextOrder ==
    \/ Connect(<<"/">>)
    \/ \E c \in Conns, f \in OrderFrames : MessageInOrder(c, f)
    \/ \E c \in Conns : Close(c)
    \/ \E c \in Conns : Error(c)

SpecOrder == Init /\ [][NextOrder]_vars

\* One room with more members, where sends may fail: every connection asks
\* for target "/" and sends an update or a presence frame.
FanoutConnIds == 1..FanoutConns
FanoutFrames ==
    { [len |-> 2, tagOk |-> TRUE, tag |-> messageSync, bodyOk |-> TRUE,
       sub |-> "update", ids |-> UpdateIds, entries |-> <<>>],
      AwarenessFrame(<<Entry(7, 1, Ann)>>, TRUE) }

\* At most one send of a broadcast fails.
SendFailures == {{}} \cup { {x} : x \in FanoutConnIds }

ConnectFanout == Admit(<<"/">>, FanoutConns)
MessageFanout(c, f, failing) == Receive(c, f, MaxFrames, failing)

NextFanout ==
    \/ ConnectFanout
    \/ \E c \in FanoutConnIds, f \in FanoutFrames, failing \in SendFailures :
          MessageFanout(c, f, failing)
    \/ \E c \in FanoutConnIds : Close(c)
    \/ \E c \in FanoutConnIds : Error(c)

SpecFanout == Init /\ [][NextFanout]_vars

\* Two rooms, with every kind of event on a connection: a frame handled, a
\* frame dropped or throwing, a send that fails, an error, a close.
\* Connections arrive for the two rooms in turn.
ContainTarget(c) == IF c % 2 = 1 THEN <<"/">> ELSE <<"/", "X">>
ContainFrames ==
    FanoutFrames \cup { EmptyFrame, AwarenessFrame(<<Entry(7, 1, Ann)>>, FALSE) }

ConnectContain == Admit(ContainTarget(Cardinality(Accepted) + 1), FanoutConns)
MessageContain(c, f, failing) == Receive(c, f, MaxFrames, failing)

NextContain ==
    \/ ConnectContain
    \/ \E c \in FanoutConnIds, f \in ContainFrames, failing \in SendFailures :
          MessageContain(c, f, failing)
    \/ \E c \in FanoutConnIds : Close(c)
    \/ \E c \in FanoutConnIds : Error(c)

SpecContain == Init /\ [][NextContain]_vars

\* One room whose clients write two different structs and ask with the state
\* vector of a client that holds nothing or holds the first struct.
CatchUpStructs == {"s1", "s2"}
CatchUpUpdates ==
    { [len |-> 2, tagOk |-> TRUE, tag |-> messageSync, bodyOk |-> TRUE,
       sub |-> "update", ids |-> {i}, entries |-> <<>>] : i \in CatchUpStructs }
CatchUpQueries ==
    { [len |-> 2, tagOk |-> TRUE, tag |-> messageSync, bodyOk |-> TRUE,
       sub |-> "step1", ids |-> sv, entries |-> <<>>] : sv \in {{}, {"s1"}} }

MessageCatchUp(c, f) == Receive(c, f, MaxOrderFrames, {})

NextCatchUp ==
    \/ Connect(<<"/">>)
    \/ \E c \in Conns, f \in CatchUpUpdates \cup CatchUpQueries : MessageCatchUp(c, f)
    \/ \E c \in Conns : Close(c)
    \/ \E c \in Conns : Error(c)

SpecCatchUp == Init /\ [][NextCatchUp]_vars

\* One room whose connections may be handed over in a state other than OPEN:
\* conn.readyState is the transport's, the handler only reads it.
TransportStates == {"OPEN", "CLOSING"}
TransportFrames ==
    FanoutFrames
      \cup { [len |-> 2, tagOk |-> TRUE, tag |-> messageSync, bodyOk |-> TRUE,
               sub |-> "step1", ids |-> {}, entries |-> <<>>] }

ConnectIn(readyState) == AdmitIn(<<"/">>, NumConns, readyState)
MessageTransport(c, f) == Receive(c, f, MaxFrames, {})

NextTransport ==
    \/ \E readyState \in TransportStates : ConnectIn(readyState)
    \/ \E c \in Conns, f \in TransportFrames : MessageTransport(c, f)
    \/ \E c \in Conns : Close(c)
    \/ \E c \in Conns : Error(c)

SpecTransport == Init /\ [][NextTransport]_vars

\* Room name resolution on its own: a target is given, the connection handler
\* resolves its room name.
InitRoomName ==
    /\ ServerInit
    /\ ClientInit
    /\ ServiceInit("manager.ts")
    /\ PageInit
    /\ target \in TargetStrings
    /\ resolved = NotResolved

Resolve ==
    /\ ~resolved.done
    /\ resolved' = [done |-> TRUE, name |-> RoomName(target)]
    /\ UNCHANGED <<serverVars, clientVars, serviceVars, pageVars, target>>

SpecRoomName == InitRoomName /\ [][Resolve]_vars

\* ------------------------------------------------------------ the client
\* Collaboration.initialize(roomId): nothing when a provider is held and the
\* service is initialized; otherwise a new provider (not yet synced) is
\* constructed and held.  Yields the providers and the service afterwards.
\* The provider is bound to roomId and told to connect; the local user is
\* published in its awareness and one 'change' listener registered there.
RoomIds == {"r1", "r2"}
NewProvider(roomId, ydoc) ==
    [room |-> roomId, doc |-> ydoc, connected |-> TRUE, synced |-> FALSE, destroyed |-> FALSE,
     syncOnce |-> 0, localUser |-> TRUE, changeListeners |-> 1]

\* Variant of Collaboration.initialize with a plausible slip: the test of
\* isInitialized is missing.
InitializeAlways(ps, co, roomId) ==
    [providers |-> Append(ps, NewProvider(roomId, co.ydoc)),
     collab |-> [co EXCEPT !.provider = Len(ps) + 1, !.isInitialized = TRUE]]

Initialize(ps, co, roomId) ==
    IF co.isInitialized /\ co.provider # 0
    THEN [providers |-> ps, collab |-> co]
    ELSE [providers |-> Append(ps, NewProvider(roomId, co.ydoc)),
          collab |-> [co EXCEPT !.provider = Len(ps) + 1, !.isInitialized = TRUE]]

\* Variant of Collaboration.disconnect with a plausible slip: the provider is
\* released without being disconnected and destroyed.
DisconnectLeaks(ps, co) ==
    [providers |-> ps, collab |-> [co EXCEPT !.provider = 0, !.isInitialized = FALSE]]

\* Variant of Collaboration.disconnect with a plausible slip: the service
\* starts over with a new document.
DisconnectResetsDocument(ps, co) ==
    [providers |-> IF co.provider # 0
                   THEN [ps EXCEPT ![co.provider].connected = FALSE,
                                   ![co.provider].destroyed = TRUE,
                                   ![co.provider].syncOnce = 0]
                   ELSE ps,
     collab |-> [provider |-> 0, isInitialized |-> FALSE,
                 ydoc |-> co.ydoc + 1, ytext |-> << >>]]

\* Variant of Collaboration.disconnect with a plausible slip: isInitialized
\* is not reset.
DisconnectKeepsFlag(ps, co) ==
    [providers |-> IF co.provider # 0
                   THEN [ps EXCEPT ![co.provider].connected = FALSE,
                                   ![co.provider].destroyed = TRUE,
                                   ![co.provider].syncOnce = 0]
                   ELSE ps,
     collab |-> [co EXCEPT !.provider = 0]]

\* Collaboration.disconnect(): the held provider is disconnected and
\* destroyed (its observers are dropped) and released.
Disconnect(ps, co) ==
    [providers |-> IF co.provider # 0
                   THEN [ps EXCEPT ![co.provider].connected = FALSE,
                                   ![co.provider].destroyed = TRUE,
                                   ![co.provider].syncOnce = 0]
                   ELSE ps,
     collab |-> [co EXCEPT !.provider = 0, !.isInitialized = FALSE]]

\* Collaboration.reconnect(newRoomId): disconnect(), then initialize(newRoomId).
Reconnect(ps, co, newRoomId) ==
    LET d == Disconnect(ps, co)
    IN Initialize(d.providers, d.collab, newRoomId)

\* Variant of Manager.destroyEditor with a plausible slip: the setup is
\* called although no view is held.
DestroyEditorUnguarded(m, su) ==
    [mgr |-> [editorView |-> 0, isInitialized |-> FALSE],
     cmSetup |-> [su EXCEPT !.destroyCalls = @ + 1]]

\* Manager.destroyEditor(): when a view is held, CodeMirrorSetup.destroyEditor
\* is called with it and view and flag are reset.
DestroyEditor(m, su) ==
    IF m.editorView # 0
    THEN [mgr |-> [editorView |-> 0, isInitialized |-> FALSE],
          cmSetup |-> [su EXCEPT !.destroyCalls = @ + 1]]
    ELSE [mgr |-> m, cmSetup |-> su]

\* 1 for a call of destroyEditor made after a view was destroyed and while
\* none is held, else 0.
Again(m, su) == IF m.editorView = 0 /\ su.destroyCalls > 0 THEN 1 ELSE 0

\* Variant of the test of provider.synced with a plausible slip: the editor
\* is created at once whatever the provider says.
SyncedAlready(p) == TRUE

\* if (provider.synced): whether createEditor runs at once.
IsSynced(p) == p.synced

\* createEditor up to its await, run n times in a row: each run returns at
\* once when editorInitialized is set, and otherwise calls
\* Manager.initializeEditor, which parks at createEditorState.
CreateEditor(ed, n) == IF ed.editorInitialized THEN 0 ELSE n

\* The container effect runs Editor.initializeEditor(parent).
EffectRun ==
    /\ ~editor.destroyed
    /\ editor.effectRuns < MaxEffectRuns
    /\ \E roomId \in RoomIds :
       LET i == Initialize(providers, collab, roomId)
           p == i.collab.provider
           started == IF IsSynced(i.providers[p]) THEN CreateEditor(editor, 1) ELSE 0
       IN /\ collab' = i.collab
          /\ providers' = IF IsSynced(i.providers[p])
                          THEN i.providers
                          ELSE [i.providers EXCEPT ![p].syncOnce = @ + 1]
          /\ tasks' = [tasks EXCEPT !.creating = @ + started]
          /\ calls' = [calls EXCEPT !.initializeEditor = @ + started]
    /\ editor' = [editor EXCEPT !.effectRuns = @ + 1]
    /\ UNCHANGED <<mgr, cmSetup, serverVars, nameVars, serviceVars, pageVars>>

\* Provider p emits 'sync' with isSynced (its synced flag changes to it); the
\* listeners registered with once('sync') run once and are removed.
ProviderSync(p, isSynced) ==
    /\ p \in 1..Len(providers)
    /\ ~providers[p].destroyed
    /\ providers[p].synced # isSynced
    /\ calls.sync < MaxSyncEvents
    /\ LET started == IF isSynced THEN CreateEditor(editor, providers[p].syncOnce) ELSE 0
       IN /\ tasks' = [tasks EXCEPT !.creating = @ + started]
          /\ calls' = [calls EXCEPT !.initializeEditor = @ + started, !.sync = @ + 1]
    /\ providers' = [providers EXCEPT ![p].synced = isSynced, ![p].syncOnce = 0]
    /\ UNCHANGED <<collab, mgr, cmSetup, editor, serverVars, nameVars, serviceVars, pageVars>>

\* createEditorState resolves for a call of Manager.initializeEditor made by
\* the Editor: the view is created and held, the flag set.
StateCreated ==
    /\ tasks.creating > 0
    /\ cmSetup' = [cmSetup EXCEPT !.views = @ + 1]
    /\ mgr' = [editorView |-> cmSetup.views + 1, isInitialized |-> TRUE]
    /\ tasks' = [tasks EXCEPT !.creating = @ - 1, !.returning = @ + 1]
    /\ UNCHANGED <<providers, collab, editor, calls, serverVars, nameVars, serviceVars, pageVars>>

\* The await in createEditor resumes: editorInitialized is set, editorReady
\* emitted.
EditorCreated ==
    /\ tasks.returning > 0
    /\ editor' = [editor EXCEPT !.editorInitialized = TRUE]
    /\ tasks' = [tasks EXCEPT !.returning = @ - 1]
    /\ UNCHANGED <<providers, collab, mgr, cmSetup, calls, serverVars, nameVars, serviceVars, pageVars>>

\* Editor.ngOnDestroy().
NgOnDestroy ==
    /\ ~editor.destroyed
    /\ LET c == Disconnect(providers, collab)
           m == DestroyEditor(mgr, cmSetup)
       IN /\ providers' = c.providers
          /\ collab' = c.collab
          /\ mgr' = m.mgr
          /\ cmSetup' = m.cmSetup
    /\ editor' = [editor EXCEPT !.editorInitialized = FALSE, !.destroyed = TRUE]
    /\ calls' = [calls EXCEPT !.destroyEditor = @ + 1,
                              !.destroyAgain = @ + Again(mgr, cmSetup)]
    /\ UNCHANGED <<tasks, serverVars, nameVars, serviceVars, pageVars>>

NextEditor ==
    \/ EffectRun
    \/ \E p \in DOMAIN providers, isSynced \in BOOLEAN : ProviderSync(p, isSynced)
    \/ StateCreated
    \/ EditorCreated
    \/ NgOnDestroy

SpecEditor == Init /\ [][NextEditor]_vars

\* Manager on its own: its methods are called directly, in any order.
ManagerInitializeEditor ==
    /\ calls.direct < MaxManagerCalls
    /\ tasks' = [tasks EXCEPT !.direct = @ + 1]
    /\ calls' = [calls EXCEPT !.direct = @ + 1]
    /\ UNCHANGED <<providers, collab, mgr, cmSetup, editor, serverVars, nameVars, serviceVars, pageVars>>

\* createEditorState resolves for a direct call of Manager.initializeEditor.
ManagerStateCreated ==
    /\ tasks.direct > 0
    /\ cmSetup' = [cmSetup EXCEPT !.views = @ + 1]
    /\ mgr' = [editorView |-> cmSetup.views + 1, isInitialized |-> TRUE]
    /\ tasks' = [tasks EXCEPT !.direct = @ - 1]
    /\ UNCHANGED <<providers, collab, editor, calls, serverVars, nameVars, serviceVars, pageVars>>

ManagerDestroyEditor ==
    /\ calls.destroyEditor < MaxManagerCalls
    /\ LET m == DestroyEditor(mgr, cmSetup)
       IN mgr' = m.mgr /\ cmSetup' = m.cmSetup
    /\ calls' = [calls EXCEPT !.destroyEditor = @ + 1,
                              !.destroyAgain = @ + Again(mgr, cmSetup)]
    /\ UNCHANGED <<providers, collab, editor, tasks, serverVars, nameVars, serviceVars, pageVars>>

\* Collaboration on its own: its methods are called directly, in any order,
\* while the providers it constructed synchronise.
CollabCalls == calls.initialize + calls.disconnect + calls.reconnect

CollabInitialize(roomId) ==
    /\ CollabCalls < MaxCollabCalls
    /\ LET i == Initialize(providers, collab, roomId)
       IN providers' = i.providers /\ collab' = i.collab
    /\ calls' = [calls EXCEPT !.initialize = @ + 1]
    /\ UNCHANGED <<mgr, cmSetup, editor, tasks, serverVars, nameVars, serviceVars, pageVars>>

CollabDisconnect ==
    /\ CollabCalls < MaxCollabCalls
    /\ LET d == Disconnect(providers, collab)
       IN providers' = d.providers /\ collab' = d.collab
    /\ calls' = [calls EXCEPT !.disconnect = @ + 1]
    /\ UNCHANGED <<mgr, cmSetup, editor, tasks, serverVars, nameVars, serviceVars, pageVars>>

CollabReconnect(newRoomId) ==
    /\ CollabCalls < MaxCollabCalls
    /\ LET r == Reconnect(providers, collab, newRoomId)
       IN providers' = r.providers /\ collab' = r.collab
    /\ calls' = [calls EXCEPT !.reconnect = @ + 1]
    /\ UNCHANGED <<mgr, cmSetup, editor, tasks, serverVars, nameVars, serviceVars, pageVars>>

\* yCollab(ytext, awareness): the extension binding an editor to the shared
\* text of document ydoc and to the awareness of provider p.
YCollab(ydoc, p) == [ytext |-> ydoc, awareness |-> p]

\* Variant of getCollaborationExtensions with a plausible slip: the test of
\* the provider is missing.
GetCollaborationExtensionsUnguarded(co) ==
    [threw |-> FALSE, extensions |-> <<YCollab(co.ydoc, co.provider)>>]

\* Collaboration.getCollaborationExtensions().
GetCollaborationExtensions(co) ==
    IF co.provider = 0
    THEN [threw |-> TRUE, extensions |-> << >>]
    ELSE [threw |-> FALSE, extensions |-> <<YCollab(co.ydoc, co.provider)>>]

CollabGetExtensions ==
    /\ LET g == GetCollaborationExtensions(collab)
       IN calls' = [calls EXCEPT !.extensions =
                       [called |-> TRUE, threw |-> g.threw,
                        extensions |-> g.extensions, after |-> CollabCalls]]
    /\ UNCHANGED <<providers, collab, mgr, cmSetup, editor, tasks,
                   serverVars, nameVars, serviceVars, pageVars>>

\* Collaboration.getCurrentContent(): the shared text as a string.
GetCurrentContent(co) == co.ytext

\* A transaction on the service's document inserts a character at the end of
\* the shared text (an edit through the editor binding, or a peer's update
\* that a provider applied).
TextInsert(ch) ==
    /\ Len(collab.ytext) < MaxDocLen
    /\ collab' = [collab EXCEPT !.ytext = Append(@, ch)]
    /\ UNCHANGED <<providers, mgr, cmSetup, editor, tasks, calls,
                   serverVars, nameVars, serviceVars, pageVars>>

NextCollaboration ==
    \/ \E roomId \in RoomIds : CollabInitialize(roomId)
    \/ \E ch \in WordChars : TextInsert(ch)
    \/ CollabGetExtensions
    \/ CollabDisconnect
    \/ \E newRoomId \in RoomIds : CollabReconnect(newRoomId)
    \/ \E p \in DOMAIN providers, isSynced \in BOOLEAN : ProviderSync(p, isSynced)

SpecCollaboration == Init /\ [][NextCollaboration]_vars

\* What CodeMirrorSetup answers to a getter called with a view.
SetupAnswer(method, view) == [kind |-> method, id |-> view]

\* Variant of the delegating methods with a plausible slip: the test of
\* editorView is missing.
DelegateUnguarded(m, su, method) ==
    [mgr |-> m,
     cmSetup |-> [su EXCEPT !.delegated[method] = @ + 1],
     returned |-> IF method \in ManagerGetters
                  THEN SetupAnswer(method, m.editorView) ELSE Undefined]

\* if (this.editorView) ... this.codeMirrorSetup.<method>(this.editorView, ...):
\* the body shared by getEditorContent, getCursorPosition, reconfigureEditor,
\* changeTabSize, changeLineWrapping and (in manager.ts) changeLanguage.
Delegate(m, su, method) ==
    IF m.editorView # 0
    THEN [mgr |-> m,
          cmSetup |-> [su EXCEPT !.delegated[method] = @ + 1],
          returned |-> IF method \in ManagerGetters
                       THEN SetupAnswer(method, m.editorView) ELSE Undefined]
    ELSE [mgr |-> m, cmSetup |-> su, returned |-> Undefined]

\* Manager.changeLanguage as the file src defines it: part_010 first calls
\* destroyEditor when isEditorInitialized, then both delegate when a view is
\* (still) held.
ChangeLanguage(src, m, su) ==
    IF src = "part_010"
    THEN LET d == IF m.isInitialized THEN DestroyEditor(m, su)
                  ELSE [mgr |-> m, cmSetup |-> su]
         IN Delegate(d.mgr, d.cmSetup, "changeLanguage")
    ELSE Delegate(m, su, "changeLanguage")

ManagerMethod(src, m, su, method) ==
    IF method = "changeLanguage" THEN ChangeLanguage(src, m, su)
    ELSE Delegate(m, su, method)

\* A direct call of one of the delegating methods.
ManagerCall(method) ==
    /\ ops.count < MaxManagerOps
    /\ LET r == ManagerMethod(ops.source, mgr, cmSetup, method)
       IN /\ mgr' = r.mgr
          /\ cmSetup' = r.cmSetup
          /\ ops' = [ops EXCEPT !.count = @ + 1, !.returned = r.returned]
    /\ UNCHANGED <<providers, collab, editor, tasks, calls, serverVars, nameVars, pageVars>>

NextManager ==
    \/ ManagerInitializeEditor
    \/ ManagerStateCreated
    \/ ManagerDestroyEditor
    \/ \E method \in ManagerMethods : ManagerCall(method)

\* The Manager of either file, freshly injected.
InitManager ==
    /\ ServerInit
    /\ NameInit
    /\ ClientInit
    /\ \E src \in ManagerSources : ServiceInit(src)
    /\ PageInit

SpecManager == InitManager /\ [][NextManager]_vars

\* ------------------------------------------------------- the completion source
\* context.matchBefore(/\w+$/): the text of the cursor's line before the
\* cursor is searched for a run of word characters that ends it; null when
\* there is none, else where the run starts.
LineFrom(doc, pos) ==
    LET breaks == { i \in 1..pos : doc[i] = "\n" }
    IN IF breaks = {} THEN 0 ELSE CHOOSE i \in breaks : \A j \in breaks : j <= i
MatchBefore(doc, pos) ==
    LET start == LineFrom(doc, pos)
        found == { i \in (start + 1)..pos : \A j \in i..pos : doc[j] \in WordChars }
    IN IF found = {} THEN [isNull |-> TRUE, from |-> 0]
       ELSE [isNull |-> FALSE,
             from |-> (CHOOSE i \in found : \A j \in found : i <= j) - 1]

\* state.doc.sliceString(0, pos).
SliceString(doc, from, to) == SubSeq(doc, from + 1, to)

GEMINI_PROXY_URL == "http://localhost:3000/api/complete"
Post(codeContext) ==
    [method |-> "POST", url |-> GEMINI_PROXY_URL, body |-> [codeContext |-> codeContext]]

\* What a stretch of fetchGeminiSuggestion between two awaits comes to.
Throws == [kind |-> "throw", value |-> NoResult]
Returns(r) == [kind |-> "return", value |-> r]
Awaits == [kind |-> "await", value |-> NoResult]
ResolvedNull == [settled |-> "resolved", isNull |-> TRUE, from |-> 0, options |-> << >>]
Rejected == [settled |-> "rejected", isNull |-> FALSE, from |-> 0, options |-> << >>]
Resolved(position, options) ==
    [settled |-> "resolved", isNull |-> FALSE, from |-> position, options |-> options]

\* Variant of the try block with a plausible slip: no catch, so an exception
\* rejects the promise the async function returned.
SettleUncaught(outcome) ==
    IF outcome.kind = "throw" THEN Rejected ELSE outcome.value

\* try { ... } catch (_error) { return null; }: the promise of the async
\* function after a stretch that returned or threw.
Settle(outcome) ==
    IF outcome.kind = "throw" THEN ResolvedNull ELSE outcome.value

\* The responses fetch settles with: it rejects, or resolves with a response
\* whose ok is false or true.
FetchOutcomes == {"rejected", "notOk", "ok"}
AfterFetch(fetched) ==
    IF fetched = "rejected" THEN Throws
    ELSE IF fetched = "notOk" THEN Returns(ResolvedNull)
    ELSE Awaits

\* The bodies response.json() settles with: it rejects (not JSON), or resolves
\* with null, with an object without suggestion, or with an object whose
\* suggestion is a string.
Body(kind, text) == [kind |-> kind, suggestion |-> text]
Bodies ==
    { Body("invalid", << >>), Body("null", << >>), Body("object", << >>) }
        \cup { Body("suggestion", Text(n)) : n \in 0..MaxSuggestionLen }

\* Variant of the label with a plausible slip: >= for >.
LabelFrom50(suggestionText) ==
    IF Len(suggestionText) >= LabelLimit
    THEN SubSeq(suggestionText, 1, LabelLimit) \o Ellipsis
    ELSE suggestionText

\* suggestionText.length > 50 ? `${suggestionText.substring(0, 50)}...` : suggestionText
Label(suggestionText) ==
    IF Len(suggestionText) > LabelLimit
    THEN SubSeq(suggestionText, 1, LabelLimit) \o Ellipsis
    ELSE suggestionText

Suggestion(suggestionText) ==
    [label |-> Label(suggestionText), detail |-> "Gemini AI Completion",
     info |-> "Suggestion provided by Gemini AI", apply |-> suggestionText,
     type |-> "keyword"]

\* From `const data = await response.json()` to the return.
AfterJson(body, position) ==
    IF body.kind = "invalid" THEN Throws
    ELSE IF body.kind = "null" THEN Throws      \* data.suggestion of null
    ELSE LET suggestionText == IF body.kind = "suggestion" THEN body.suggestion
                               ELSE << >>       \* data.suggestion || ''
         IN IF suggestionText = << >> THEN Returns(ResolvedNull)
            ELSE Returns(Resolved(position, <<Suggestion(suggestionText)>>))

\* Variant of the trigger test with a plausible slip: || for &&.
SkipsUnlessBoth(explicit, doc, pos) == ~explicit \/ MatchBefore(doc, pos).isNull

\* !context.explicit && context.matchBefore(/\w+$/) === null
Skips(explicit, doc, pos) == ~explicit /\ MatchBefore(doc, pos).isNull

\* The completion source is called with the context: it resolves null at
\* once, or calls fetchGeminiSuggestion, which issues the request and parks
\* at `await fetch(...)`.
CompletionSource ==
    /\ completion.phase = "idle"
    /\ completion' =
          IF Skips(completion.explicit, completion.doc, completion.pos)
          THEN [completion EXCEPT !.phase = "done", !.result = ResolvedNull]
          ELSE [completion EXCEPT
                  !.phase = "fetching",
                  !.requests = Append(@, Post(SliceString(completion.doc, 0,
                                                          completion.pos)))]
    /\ UNCHANGED <<serverVars, nameVars, clientVars, serviceVars, home>>

\* fetch settles.
FetchSettles(fetched) ==
    /\ completion.phase = "fetching"
    /\ LET o == AfterFetch(fetched)
       IN completion' =
            IF o.kind = "await"
            THEN [completion EXCEPT !.phase = "parsing"]
            ELSE [completion EXCEPT !.phase = "done", !.result = Settle(o)]
    /\ UNCHANGED <<serverVars, nameVars, clientVars, serviceVars, home>>

\* response.json() settles.
JsonSettles(body) ==
    /\ completion.phase = "parsing"
    /\ completion' = [completion EXCEPT
                        !.phase = "done",
                        !.result = Settle(AfterJson(body, completion.pos))]
    /\ UNCHANGED <<serverVars, nameVars, clientVars, serviceVars, home>>

NextAutocomplete ==
    \/ CompletionSource
    \/ \E fetched \in FetchOutcomes : FetchSettles(fetched)
    \/ \E body \in Bodies : JsonSettles(body)

\* The source may be called in any context: explicit or not, any document, the
\* cursor anywhere in it.
InitAutocomplete ==
    /\ ServerInit
    /\ NameInit
    /\ ClientInit
    /\ ServiceInit("manager.ts")
    /\ HomeInit(<< >>)
    /\ \E explicit \in BOOLEAN, doc \in Strings(MaxDocLen) :
          \E pos \in 0..Len(doc) : CompletionInit(explicit, doc, pos)

SpecAutocomplete == InitAutocomplete /\ [][NextAutocomplete]_vars

\* ------------------------------------------------------------------- Home
\* String.prototype.trim: white space is stripped from both ends.
RECURSIVE TrimStart(_)
TrimStart(str) ==
    IF str # << >> /\ Head(str) \in WhiteSpace THEN TrimStart(Tail(str)) ELSE str
RECURSIVE TrimEnd(_)
TrimEnd(str) ==
    IF str # << >> /\ str[Len(str)] \in WhiteSpace
    THEN TrimEnd(SubSeq(str, 1, Len(str) - 1)) ELSE str
\* Variant of trim with a plausible slip: only the start is stripped.
TrimLeadingOnly(str) == TrimStart(str)

Trim(str) == TrimEnd(TrimStart(str))

\* computed(() => this.joinRoomId()?.trim().length >= 3)
IsValidRoomId(id) == Len(Trim(id)) >= MinRoomIdLen

\* Home.joinRoom().
JoinRoom ==
    /\ home.joins < MaxJoins
    /\ home' = [home EXCEPT
                  !.joins = @ + 1,
                  !.navigations = IF IsValidRoomId(home.joinRoomId)
                                  THEN Append(@, <<"/editor", Trim(home.joinRoomId)>>)
                                  ELSE @]
    /\ UNCHANGED <<serverVars, nameVars, clientVars, serviceVars, completion>>

\* Any text may have been typed into the join field.
InitHome ==
    /\ ServerInit
    /\ NameInit
    /\ ClientInit
    /\ ServiceInit("manager.ts")
    /\ CompletionInit(FALSE, << >>, 0)
    /\ \E id \in Strings(MaxRoomIdLen) : HomeInit(id)

SpecHome == InitHome /\ [][JoinRoom]_vars

\* ================================================================ claims
IsMember(c) == c \in Accepted /\ c \in room[conn[c].doc].conns
IsOpen(c) == conn[c].readyState = "OPEN"
IsBroadcast(e) == e.frame # 0 /\ e.sub \in {"update", "awareness"}

\* The envelopes a step appended to the log of connection c.
Written(c) ==
    IF c \in Accepted THEN SubSeq(out'[c], Len(out[c]) + 1, Len(out'[c])) ELSE out'[c]

FrameStep == Len(frames') = Len(frames) + 1
ConnectStep == Accepted' # Accepted
NewConn == CHOOSE c \in Accepted' : c \notin Accepted

\* C1 (no echo).  Whenever handling a frame from connection A fires an engine
\* 'update' event, A is written no broadcast envelope, every other connection
\* that is then an OPEN member of A's room is written exactly one envelope, the
\* same for all of them and caused by that frame, and nobody else is written a
\* broadcast.
NoEchoStep ==
    FrameStep /\ frames'[Len(frames')].emitted =>
        LET A == frames'[Len(frames')].conn
            d == conn[A].doc
            others == { c \in room[d].conns : c # A /\ IsOpen(c) }
        IN /\ \A i \in 1..Len(Written(A)) : ~IsBroadcast(Written(A)[i])
           /\ \A c \in others :
                /\ Len(Written(c)) = 1
                /\ IsBroadcast(Written(c)[1])
                /\ Written(c)[1].frame = Len(frames')
                /\ \A c2 \in others : Written(c2) = Written(c)
           /\ \A c \in Accepted \ (others \cup {A}) : Written(c) = <<>>
NoEcho == [][NoEchoStep]_vars

\* C1 witness: a broadcast envelope caused by a frame of another connection has
\* been written to a connection while the sender was a member of the same room.
NoEchoWitness ==
    \E c \in Accepted : \E i \in 1..Len(out[c]) :
        /\ IsBroadcast(out[c][i])
        /\ frames[out[c][i].frame].conn # c
        /\ conn[frames[out[c][i].frame].conn].doc = conn[c].doc
        /\ frames[out[c][i].frame].emitted

\* C2 (cross-room isolation).  Every envelope caused by a frame was written to
\* a connection admitted to the room name the frame's sender was admitted to.
CrossRoomIsolation ==
    \A c \in Accepted : \A i \in 1..Len(out[c]) :
        out[c][i].frame # 0 =>
            conn[frames[out[c][i].frame].conn].roomName = conn[c].roomName

\* C2 witness: a frame fired a broadcast in one room while an OPEN connection
\* was a member of a room with another name.
CrossRoomWitness ==
    \E k \in 1..Len(frames) : \E c \in Accepted :
        /\ frames[k].emitted
        /\ conn[c].roomName # conn[frames[k].conn].roomName
        /\ IsMember(c) /\ IsOpen(c)
        /\ IsMember(frames[k].conn)

\* C3 (registry invariant).  Every registered room instance has a member.
RegistryNonEmptyRooms ==
    \A n \in DOMAIN docs : room[docs[n]].conns # {}

\* C3 witness: a room was emptied and removed while another is registered.
RegistryWitness ==
    /\ \E d \in DOMAIN room : room[d].destroyed
    /\ DOMAIN docs # {}

\* C4 (a room with members stays registered).  Every member connection's room
\* instance is the one the registry holds under the connection's room name.
MemberRoomRegistered ==
    \A c \in Accepted :
        IsMember(c) =>
            /\ Has(docs, conn[c].roomName)
            /\ docs[conn[c].roomName] = conn[c].doc

\* C4 witness: a connection is a member of a room that another connection of
\* the same name has already left.
MemberRoomWitness ==
    \E c1, c2 \in Accepted :
        /\ c1 # c2
        /\ conn[c1].roomName = conn[c2].roomName
        /\ conn[c1].doc = conn[c2].doc
        /\ conn[c1].closed
        /\ IsMember(c2)

\* C5 (single room per name).  Two member connections naming the same room
\* are members of the same instance, and no two instances of one name both
\* have members.
SingleRoomPerName ==
    /\ \A c1, c2 \in Accepted :
          IsMember(c1) /\ IsMember(c2) /\ conn[c1].roomName = conn[c2].roomName
              => conn[c1].doc = conn[c2].doc
    /\ \A d1, d2 \in DOMAIN room :
          d1 # d2 /\ room[d1].name = room[d2].name
              => room[d1].conns = {} \/ room[d2].conns = {}

\* C5 witness: two connections are members under one name at the same time.
SingleRoomWitness ==
    \E c1, c2 \in Accepted :
        c1 # c2 /\ IsMember(c1) /\ IsMember(c2) /\ conn[c1].roomName = conn[c2].roomName

\* C6 (getYDoc is idempotent and deterministic).  On every admission: when the
\* name was registered the connection gets the registered instance and nothing
\* is constructed; otherwise exactly one instance is constructed; either way
\* the registry holds the returned instance under that name afterwards, and
\* under no other name.
GetYDocStep ==
    ConnectStep =>
        LET c == NewConn
            n == conn'[c].roomName
            d == conn'[c].doc
        IN /\ Has(docs, n) => d = docs[n] /\ DOMAIN room' = DOMAIN room
           /\ ~Has(docs, n) => d \notin DOMAIN room /\ DOMAIN room' = DOMAIN room \cup {d}
           /\ Has(docs', n) /\ docs'[n] = d
           /\ \A m \in DOMAIN docs' : m # n => docs'[m] # d
GetYDocIdempotent == [][GetYDocStep]_vars

\* C6 witness: two connections named one room and the second was handed the
\* instance constructed for the first: one instance exists for both.
GetYDocWitness ==
    \E c1, c2 \in Accepted :
        /\ c1 < c2
        /\ conn[c1].roomName = conn[c2].roomName
        /\ conn[c1].doc = conn[c2].doc
        /\ Cardinality(DOMAIN room) = 1

\* C7 (empty-room cleanup).  The close of a room's last member destroys the
\* instance and removes its name from the registry in that step; a destroyed
\* instance is never handed out again; and an admission under a name the
\* registry does not hold goes to an instance constructed in that step, with an
\* empty document and no presence entry other than its own local one.
EmptyRoomCleanupStep ==
    /\ \A c \in Accepted :
          ~conn[c].closed /\ conn'[c].closed /\ room[conn[c].doc].conns = {c} =>
              /\ room'[conn[c].doc].destroyed
              /\ ~Has(docs', conn[c].roomName)
    /\ ConnectStep =>
          LET c == NewConn
              d == conn'[c].doc
          IN /\ ~room'[d].destroyed
             /\ ~Has(docs, conn'[c].roomName) =>
                   /\ d \notin DOMAIN room
                   /\ room'[d].ydoc = {}
                   /\ DOMAIN room'[d].states = {LocalClientID(d)}
                   /\ room'[d].conns = {c}
EmptyRoomCleanup == [][EmptyRoomCleanupStep]_vars

\* C7 witness: a room that held document content and a presence entry was
\* emptied, and a connection naming it again is a member of another instance.
EmptyRoomCleanupWitness ==
    \E d1, d2 \in DOMAIN room :
        /\ d1 # d2
        /\ room[d1].name = room[d2].name
        /\ room[d1].destroyed
        /\ room[d1].ydoc # {} \/ DOMAIN room[d1].states # {}
        /\ room[d2].conns # {}

\* C8 (eviction clears presence), for a close that leaves members in the room:
\* no presence entry held by a room with members was last published, by a
\* Presence envelope the engine accepted and announced, by a connection that
\* has closed.
PublishedBy(x) == frames[publisher[x]].conn
EvictionClearsPresence ==
    \A x \in DOMAIN publisher :
        ~(/\ frames[publisher[x]].emitted
          /\ conn[PublishedBy(x)].closed
          /\ room[x[1]].conns # {})

\* C9 (eviction runs at most once).  A "close" signal for a connection whose
\* close handler already ran changes neither the registry, nor any room, nor
\* what has been written.
DupCloseStep ==
    \A c \in Accepted :
        closeSignals[c] >= 1 /\ closeSignals'[c] > closeSignals[c] =>
            UNCHANGED <<docs, room, out>>
EvictionAtMostOnce == [][DupCloseStep]_vars

\* C10 (an error signal evicts).  A connection whose "error" handler has run
\* (its socket is CLOSING, its "close" has not fired) is no member of its room.
ErrorEvicts ==
    \A c \in Accepted :
        conn[c].readyState = "CLOSING" => ~IsMember(c)

\* C11 (admission protocol).  The step that admits a connection writes to it
\* first exactly one Sync envelope carrying the room's state-vector request,
\* then, if and only if the room's presence table is non-empty at that moment,
\* exactly one Presence envelope holding one entry, with its current clock and
\* state, for every client of the table; it writes nothing to anyone else.
AdmissionStep ==
    ConnectStep =>
        LET c == NewConn
            d == conn'[c].doc
            r == room'[d]
            w == out'[c]
        IN /\ Len(w) = (IF DOMAIN r.states # {} THEN 2 ELSE 1)
           /\ w[1].tag = messageSync /\ w[1].sub = "step1"
           /\ w[1].ids = r.ydoc /\ w[1].doc = d /\ w[1].frame = 0
           /\ Len(w) = 2 =>
                /\ w[2].tag = messageAwareness /\ w[2].sub = "awareness"
                /\ w[2].doc = d /\ w[2].frame = 0
                /\ Len(w[2].entries) = Cardinality(DOMAIN r.states)
                /\ { w[2].entries[i].clientID : i \in 1..Len(w[2].entries) }
                     = DOMAIN r.states
                /\ \A i \in 1..Len(w[2].entries) :
                     LET e == w[2].entries[i]
                     IN e.state = r.states[e.clientID] /\ e.clock = r.clock[e.clientID]
           /\ \A o \in Accepted : out'[o] = out[o]
AdmissionProtocol == [][AdmissionStep]_vars

\* A connection admitted to a room with another member and a presence entry a
\* client published: its log starts with the Sync request, then the snapshot.
AdmissionWitness ==
    \E c \in Accepted :
        /\ Len(out[c]) >= 2
        /\ out[c][1].sub = "step1" /\ out[c][2].sub = "awareness"
        /\ out[c][2].frame = 0
        /\ Len(out[c][2].entries) >= 2
        /\ \E o \in Accepted \ {c} : conn[o].doc = conn[c].doc /\ out[o] # <<>>

\* C12 (malformed-frame resilience).  Handling a frame that is dropped (zero
\* length, unknown tag) or that throws closes no connection and changes no
\* room's members nor the registry, and the sender is still attached and a
\* member; a well-formed frame the same connection sends after such a frame is
\* handed to its engine: an update's content is in the document afterwards and
\* a presence entry's clock is no newer than the table's.
WellFormed(f) == f.len > 0 /\ f.tagOk /\ f.bodyOk /\ f.tag \in {messageSync, messageAwareness}
HadMalformed(c) ==
    \E j \in 1..Len(frames) : frames[j].conn = c /\ frames[j].fate # "handled"
ResilienceStep ==
    FrameStep =>
        LET k == Len(frames')
            c == frames'[k].conn
            d == conn[c].doc
        IN /\ frames'[k].fate # "handled" =>
                /\ conn' = conn /\ docs' = docs
                /\ DOMAIN room' = DOMAIN room
                /\ \A x \in DOMAIN room :
                      room'[x].conns = room[x].conns /\ room'[x].destroyed = room[x].destroyed
                /\ ~conn'[c].closed /\ c \in room'[d].conns
           /\ \A f \in OrderFrames :
                WellFormed(f) /\ HadMalformed(c) /\ MessageInOrder(c, f) =>
                    /\ frames'[k].fate = "handled"
                    /\ f.tag = messageSync => f.ids \subseteq room'[d].ydoc
                    /\ f.tag = messageAwareness =>
                          \A i \in 1..Len(f.entries) :
                              Get(room'[d].clock, f.entries[i].clientID, 0) >= f.entries[i].clock
MalformedResilience == [][ResilienceStep]_vars

\* A connection sent a frame that threw or was dropped and then a well-formed
\* frame that the engine applied and announced; it is still a member.
ResilienceWitness ==
    \E j, k \in 1..Len(frames) :
        /\ j < k /\ frames[j].conn = frames[k].conn
        /\ frames[j].fate # "handled"
        /\ frames[k].fate = "handled" /\ frames[k].emitted
        /\ IsMember(frames[k].conn) /\ ~conn[frames[k].conn].closed

\* C13 (no loss, no reordering).  Whenever handling a frame from connection A
\* changes the room's document or presence table, every other connection B
\* that is an OPEN member of the room is written exactly one envelope for that
\* frame, carrying the new document content or the changed presence entries;
\* envelopes are only ever appended to a connection's log, so they lie in it
\* in the order in which the frames that caused them were handled.
RoomChanged(d) ==
    \/ room'[d].ydoc # room[d].ydoc
    \/ room'[d].states # room[d].states
    \/ room'[d].clock # room[d].clock
Carries(e, d) ==
    /\ e.ids = room'[d].ydoc \ room[d].ydoc
    /\ { e.entries[i].clientID : i \in 1..Len(e.entries) } = TouchedIds(room[d], room'[d])
    /\ \A i \in 1..Len(e.entries) :
          e.entries[i].state = Get(room'[d].states, e.entries[i].clientID, Null)
AppendOnly ==
    \A c \in Accepted :
        /\ Len(out'[c]) >= Len(out[c])
        /\ SubSeq(out'[c], 1, Len(out[c])) = out[c]
        /\ \A i \in 1..Len(Written(c)) :
              IsBroadcast(Written(c)[i]) => Written(c)[i].frame = Len(frames')
NoLossStep ==
    /\ AppendOnly
    /\ FrameStep =>
         LET k == Len(frames')
             a == frames'[k].conn
             d == conn[a].doc
         IN RoomChanged(d) =>
               \A b \in room[d].conns \ {a} :
                   IsOpen(b) =>
                       /\ Len(Written(b)) = 1
                       /\ IsBroadcast(Written(b)[1])
                       /\ Written(b)[1].frame = k
                       /\ Carries(Written(b)[1], d)
NoLossNoReorder == [][NoLossStep]_vars

\* C14 (room name resolution).  The room name resolved for a target is the
\* target with one leading "/" stripped if it has one, or "default" when the
\* target is missing or nothing remains; otherwise the remainder as it is.
ClaimedRoomName(t) ==
    LET rest == IF t # <<>> /\ t[1] = "/" THEN SubSeq(t, 2, Len(t)) ELSE t
    IN IF rest = <<>> THEN Default ELSE rest
RoomNameAsClaimed ==
    resolved.done => resolved.name = ClaimedRoomName(target)

\* C15 (sync replies go to the sender only).  While a frame from connection A
\* is handled, no envelope other than a broadcast is written to anyone but A,
\* and A is written at most one; A is written one only for a Sync frame that
\* asks with a state vector, it then carries what the engine encoded for that
\* state vector, the room is left as it was and nothing is written to any
\* other connection.  Sync frames that carry an update are not answered.
IsReply(e) == e.frame # 0 /\ ~IsBroadcast(e)
QueryFrames == { f \in Frames : f.tag = messageSync /\ f.sub = "step1" /\ f.bodyOk }
Replies(c) == { i \in 1..Len(Written(c)) : IsReply(Written(c)[i]) }
SyncReplyStep ==
    FrameStep =>
        LET k == Len(frames')
            a == frames'[k].conn
            d == conn[a].doc
        IN /\ \A c \in Accepted \ {a} : Replies(c) = {}
           /\ Cardinality(Replies(a)) <= 1
           /\ Replies(a) # {} =>
                /\ Len(Written(a)) = 1 /\ IsOpen(a)
                /\ Written(a)[1].tag = messageSync /\ Written(a)[1].sub = "step2"
                /\ Written(a)[1].frame = k
                /\ room' = room
                /\ \A c \in Accepted \ {a} : Written(c) = <<>>
                /\ \E f \in QueryFrames :
                      /\ Message(a, f)
                      /\ Written(a)[1].ids = EncodeStateAsUpdate(room[d].ydoc, f.ids)
           /\ Replies(a) = {} /\ IsOpen(a) => \A f \in QueryFrames : ~Message(a, f)
SyncReplyToSenderOnly == [][SyncReplyStep]_vars

\* A connection asked with a state vector while another connection was an
\* open member of its room: it holds the reply, the other holds nothing from
\* that frame.
SyncReplyWitness ==
    \E a \in Accepted, b \in Accepted :
        /\ a # b /\ conn[a].doc = conn[b].doc /\ IsMember(b) /\ IsOpen(b)
        /\ \E i \in 1..Len(out[a]) : IsReply(out[a][i])
        /\ \A i \in 1..Len(out[b]) : out[b][i].frame = 0

\* C16 (broadcast failure isolation).  In the step that broadcasts for a frame
\* from connection A, every other member of the room that is OPEN is handed
\* exactly one envelope for that frame, the same for all of them, whether or
\* not the send to any of them fails; members that are not OPEN are handed
\* nothing; the step completes without closing or removing any connection.
Sent(e) == [e EXCEPT !.failed = FALSE]
FanoutStep ==
    FrameStep /\ frames'[Len(frames')].emitted =>
        LET k == Len(frames')
            a == frames'[k].conn
            d == conn[a].doc
        IN /\ \A b \in room[d].conns \ {a} :
                IF IsOpen(b)
                THEN /\ Len(Written(b)) = 1
                     /\ IsBroadcast(Written(b)[1]) /\ Written(b)[1].frame = k
                     /\ \A c \in room[d].conns \ {a} :
                          IsOpen(c) => Sent(Written(c)[1]) = Sent(Written(b)[1])
                ELSE Written(b) = <<>>
           /\ conn' = conn /\ docs' = docs
           /\ room'[d].conns = room[d].conns
BroadcastIsolation == [][FanoutStep]_vars

\* A broadcast reached one member although another member of the room was
\* not writable and was skipped, or although the send to another member failed.
BroadcastIsolationWitness ==
    \E k \in 1..Len(frames), b \in Accepted, c \in Accepted :
        /\ frames[k].emitted
        /\ Cardinality({frames[k].conn, b, c}) = 3
        /\ conn[b].doc = conn[c].doc /\ conn[b].doc = conn[frames[k].conn].doc
        /\ \E i \in 1..Len(out[c]) : out[c][i].frame = k /\ ~out[c][i].failed
        /\ \/ /\ conn[b].readyState = "CLOSING" /\ IsMember(b)
              /\ \A i \in 1..Len(out[b]) : out[b][i].frame # k
           \/ \E i \in 1..Len(out[b]) : out[b][i].frame = k /\ out[b][i].failed

\* C17 (connection lifecycle).  The step that accepts a connection makes it a
\* member of the instance registered under the room name resolved from its
\* target; at every moment a connection is a member of no instance but that
\* one, whose name is the resolved name; the instance and the name bound to a
\* connection never change, and a connection that has left its room is never
\* a member again.
MemberOf(c) == { d \in DOMAIN room : c \in room[d].conns }
MemberOfNext(c) == { d \in DOMAIN room' : c \in room'[d].conns }
LifecycleStep ==
    /\ ConnectStep =>
          LET c == NewConn
          IN /\ \E url \in Targets : conn'[c].roomName = RoomName(url) /\ Connect(url)
             /\ Has(docs', conn'[c].roomName)
             /\ docs'[conn'[c].roomName] = conn'[c].doc
             /\ MemberOfNext(c) = {conn'[c].doc}
    /\ \A c \in Accepted' :
          /\ MemberOfNext(c) \subseteq {conn'[c].doc}
          /\ room'[conn'[c].doc].name = conn'[c].roomName
    /\ \A c \in Accepted :
          /\ conn'[c].doc = conn[c].doc /\ conn'[c].roomName = conn[c].roomName
          /\ MemberOf(c) = {} => MemberOfNext(c) = {}
ConnectionLifecycle == [][LifecycleStep]_vars

\* Two rooms have had members, a connection has left one of them and another
\* connection is a member of the other.
LifecycleWitness ==
    \E c \in Accepted, o \in Accepted :
        /\ conn[c].doc # conn[o].doc
        /\ conn[c].closed /\ MemberOf(c) = {}
        /\ MemberOf(o) = {conn[o].doc}

\* C18 (the editor waits for the provider's sync).  Every step in which the
\* Editor calls Manager.initializeEditor finds the held provider synced: it is
\* an effect run that meets a synced provider, and then the call is made in
\* that very step unless the editor is already initialized, or it is the step
\* of a 'sync' event with true; an effect run that meets a provider not yet
\* synced makes no call.
EditorWaitsStep ==
    /\ calls'.initializeEditor > calls.initializeEditor =>
          /\ collab'.provider # 0
          /\ providers'[collab'.provider].synced
          /\ ~editor.editorInitialized
    /\ editor'.effectRuns > editor.effectRuns =>
          calls'.initializeEditor =
              calls.initializeEditor +
                 (IF providers'[collab'.provider].synced /\ ~editor.editorInitialized
                  THEN 1 ELSE 0)
EditorWaitsForSync == [][EditorWaitsStep]_vars

\* The effect ran once, on a new provider that was not synced, and the Editor
\* called Manager.initializeEditor after the provider's 'sync' event.
EditorWaitsWitness ==
    /\ editor.effectRuns = 1 /\ calls.sync = 1
    /\ calls.initializeEditor = 1
    /\ collab.provider # 0 /\ providers[collab.provider].synced

\* C19 (ngOnDestroy shuts down).  Once ngOnDestroy has run and no
\* initialization is in flight any more, the Manager holds no editor view and
\* its isEditorInitialized is false.
ShutdownAfterDestroy ==
    editor.destroyed /\ tasks.creating = 0 /\ tasks.returning = 0 =>
        mgr.editorView = 0 /\ ~mgr.isInitialized

\* C20 (Manager state).  isEditorInitialized is false before any view is
\* created and at every moment true exactly when a view is held; a call of
\* destroyEditor while a view is held calls CodeMirrorSetup.destroyEditor once
\* and resets view and flag, a call while none is held calls nothing and
\* changes nothing.
ManagerConsistent(m) == m.isInitialized <=> m.editorView # 0
ManagerStep ==
    /\ ManagerConsistent(mgr) /\ ManagerConsistent(mgr')
    /\ cmSetup.views = 0 => ~mgr.isInitialized
    /\ calls'.destroyEditor > calls.destroyEditor =>
          IF mgr.editorView # 0
          THEN /\ cmSetup'.destroyCalls = cmSetup.destroyCalls + 1
               /\ mgr'.editorView = 0 /\ ~mgr'.isInitialized
          ELSE mgr' = mgr /\ cmSetup' = cmSetup
ManagerStateInvariant == [][ManagerStep]_vars

\* A view was created and destroyed, and destroyEditor was called again: the
\* setup was called once only and nothing is held.
ManagerWitness ==
    /\ cmSetup.views = 1 /\ cmSetup.destroyCalls = 1
    /\ calls.destroyAgain >= 1
    /\ mgr.editorView = 0 /\ ~mgr.isInitialized


\* C21 (Manager without an editor).  A call of getEditorContent,
\* getCursorPosition, reconfigureEditor, changeLanguage, changeTabSize or
\* changeLineWrapping made while isEditorInitialized is false calls nothing on
\* CodeMirrorSetup, returns undefined and leaves isEditorInitialized false.
NoEditorStep ==
    \A method \in ManagerMethods :
        ManagerCall(method) /\ ~mgr.isInitialized
            => /\ cmSetup' = cmSetup
               /\ ops'.returned = Undefined
               /\ ~mgr'.isInitialized
NoEditorNoOp == [][NoEditorStep]_vars

\* A delegating method was called and no view was ever created.
NoEditorWitness == ops.count > 0 /\ cmSetup.views = 0


\* C22 (changeLanguage with an editor).  A call of Manager.changeLanguage made
\* while isEditorInitialized is true destroys the held view exactly once,
\* does not call CodeMirrorSetup.changeLanguage (nor any other delegated
\* method) and leaves isEditorInitialized false.
ChangeLanguageStep ==
    ManagerCall("changeLanguage") /\ mgr.isInitialized
        => /\ cmSetup'.destroyCalls = cmSetup.destroyCalls + 1
           /\ cmSetup'.delegated = cmSetup.delegated
           /\ mgr'.editorView = 0
           /\ ~mgr'.isInitialized
ChangeLanguageDestroys == [][ChangeLanguageStep]_vars


\* C23 (initialize is idempotent).  A call of Collaboration.initialize made
\* while the service is initialized, with the same or another roomId,
\* constructs no provider and leaves the held provider, its room and its
\* listeners as they were.
InitializeAgainStep ==
    \A roomId \in RoomIds :
        CollabInitialize(roomId) /\ collab.isInitialized
            => providers' = providers /\ collab' = collab
InitializeIdempotent == [][InitializeAgainStep]_vars

\* initialize was called twice in a row, with nothing in between.
InitializeAgainWitness ==
    /\ calls.initialize = 2 /\ calls.disconnect = 0 /\ calls.reconnect = 0
    /\ Len(providers) = 1

\* C24 (reconnect).  Collaboration.reconnect(newRoomId) ends as disconnect()
\* followed by initialize(newRoomId) does: the provider held before is
\* disconnected and destroyed, exactly one provider is live, it is the held one
\* and bound to newRoomId, and isInitialized is true.
LiveProviders(ps) == { p \in DOMAIN ps : ~ps[p].destroyed }
ReconnectStep ==
    \A newRoomId \in RoomIds :
        CollabReconnect(newRoomId)
            => LET d == Disconnect(providers, collab)
                   i == Initialize(d.providers, d.collab, newRoomId)
               IN /\ providers' = i.providers /\ collab' = i.collab
                  /\ collab.provider # 0
                        => /\ providers'[collab.provider].destroyed
                           /\ ~providers'[collab.provider].connected
                  /\ collab'.isInitialized
                  /\ LiveProviders(providers') = {collab'.provider}
                  /\ providers'[collab'.provider].room = newRoomId
                  /\ providers'[collab'.provider].connected
ReconnectAsDisconnectInitialize == [][ReconnectStep]_vars

\* reconnect was called while a provider was held.
ReconnectWitness ==
    /\ calls.reconnect > 0 /\ calls.disconnect = 0
    /\ Len(providers) = 2 /\ providers[1].destroyed /\ ~providers[2].destroyed


\* C25 (completion trigger).  Called not explicitly with no word character
\* just before the cursor, the completion source resolves null and issues no
\* HTTP request; called explicitly, or with a word before the cursor, it
\* issues one POST whose codeContext is the document from offset 0 to the
\* cursor.
WordBeforeCursor ==
    completion.pos > 0 /\ completion.doc[completion.pos] \in WordChars
TextBeforeCursor == [i \in 1..completion.pos |-> completion.doc[i]]
TriggerStep ==
    CompletionSource
        => IF ~completion.explicit /\ ~WordBeforeCursor
           THEN /\ completion'.result = ResolvedNull
                /\ completion'.requests = << >>
           ELSE /\ Len(completion'.requests) = 1
                /\ completion'.requests[1].method = "POST"
                /\ completion'.requests[1].body.codeContext = TextBeforeCursor
CompletionTrigger == [][TriggerStep]_vars

\* A request was issued for a completion that was not explicit, with the
\* cursor after a word inside the document.
TriggerWitness ==
    /\ ~completion.explicit
    /\ Len(completion.requests) = 1
    /\ 0 < completion.pos /\ completion.pos < Len(completion.doc)

\* C26 (failures resolve to null).  When fetch rejects, when the response is
\* not OK, when the body is not JSON, and when the suggestion is missing or
\* empty, the promise of the completion resolves with null; it is never
\* rejected.
FailedBody(body) == body.kind # "suggestion" \/ body.suggestion = << >>
FailureStep ==
    /\ \A fetched \in {"rejected", "notOk"} :
          FetchSettles(fetched) => completion'.result = ResolvedNull
    /\ \A body \in Bodies :
          JsonSettles(body) /\ FailedBody(body)
              => completion'.result = ResolvedNull
    /\ completion'.result.settled # "rejected"
FailuresResolveNull == [][FailureStep]_vars

\* A request was issued and the completion resolved null.
FailureWitness ==
    /\ completion.phase = "done"
    /\ completion.requests # << >>
    /\ completion.result = ResolvedNull

\* C27 (completion result).  For a non-empty suggestion s received with the
\* cursor at position p, the result has from = p and exactly one option,
\* whose apply is s and whose label is s when s has at most 50 characters and
\* else the first 50 characters of s followed by "...".
ClaimedLabel(str) ==
    IF Len(str) <= 50 THEN str
    ELSE [i \in 1..53 |-> IF i <= 50 THEN str[i] ELSE Dot]
ResultStep ==
    \A body \in Bodies :
        JsonSettles(body) /\ ~FailedBody(body)
            => LET r == completion'.result
               IN /\ r.settled = "resolved" /\ ~r.isNull
                  /\ r.from = completion.pos
                  /\ Len(r.options) = 1
                  /\ r.options[1].apply = body.suggestion
                  /\ r.options[1].label = ClaimedLabel(body.suggestion)
CompletionResult == [][ResultStep]_vars

\* A suggestion of more than 50 characters was received away from offset 0.
ResultWitness ==
    /\ completion.phase = "done" /\ ~completion.result.isNull
    /\ completion.result.from > 0
    /\ Len(completion.result.options[1].apply) > 50

\* C28 (Home).  isValidRoomId is true exactly when the entered id without its
\* surrounding white space has at least 3 characters; each joinRoom then
\* navigated to ['/editor', that id], and otherwise nothing was navigated to.
Core(id) ==
    LET kept == { i \in 1..Len(id) : id[i] \notin WhiteSpace }
    IN IF kept = {} THEN << >>
       ELSE SubSeq(id, CHOOSE i \in kept : \A j \in kept : i <= j,
                       CHOOSE i \in kept : \A j \in kept : j <= i)
HomeContract ==
    LET core == Core(home.joinRoomId)
    IN /\ IsValidRoomId(home.joinRoomId) <=> Len(core) >= 3
       /\ home.navigations = IF Len(core) >= 3
                             THEN [k \in 1..home.joins |-> <<"/editor", core>>]
                             ELSE << >>

\* joinRoom navigated with an id that was entered with white space around it.
HomeWitness ==
    /\ home.joins > 0 /\ home.navigations # << >>
    /\ Len(home.navigations[1][2]) < Len(home.joinRoomId)


\* C29 (a dropped frame has no effect).  Handling a frame of zero length, a
\* frame with an unknown tag or a frame that fails to decode writes no
\* envelope to any connection and leaves every room (document, presence
\* table, members), the connections and the registry as they were.
DroppedStep ==
    FrameStep =>
        LET k == Len(frames')
        IN frames'[k].fate # "handled" =>
              /\ out' = out
              /\ room' = room
              /\ conn' = conn
              /\ docs' = docs
DroppedFrameNoEffect == [][DroppedStep]_vars


\* C30 (dispatch routes by tag).  Handling a frame changes no room's members,
\* no connection and not the registry.  A frame with tag 0 leaves the presence
\* table as it was, and the content of an update it carries is in the document
\* afterwards; a frame with tag 1 leaves the document as it was, the entries
\* it carries are known to the presence table afterwards, and what the
\* Presence Engine announces for it carries the sender as origin.
TaggedFrames ==
    { f \in OrderFrames :
        f.len > 0 /\ f.tagOk /\ f.tag \in {messageSync, messageAwareness} }
RoutingStep ==
    FrameStep =>
        LET k == Len(frames')
            a == frames'[k].conn
            d == conn[a].doc
        IN /\ docs' = docs /\ conn' = conn
           /\ DOMAIN room' = DOMAIN room
           /\ \A x \in DOMAIN room :
                 /\ room'[x].conns = room[x].conns
                 /\ x # d => room'[x] = room[x]
           /\ \A f \in TaggedFrames :
                MessageInOrder(a, f) =>
                    /\ f.tag = messageSync =>
                          /\ room'[d].states = room[d].states
                          /\ room'[d].clock = room[d].clock
                          /\ f.bodyOk => f.ids \subseteq room'[d].ydoc
                    /\ f.tag = messageAwareness =>
                          /\ room'[d].ydoc = room[d].ydoc
                          /\ f.bodyOk =>
                                \A i \in 1..Len(f.entries) :
                                    Get(room'[d].clock, f.entries[i].clientID, 0)
                                        >= f.entries[i].clock
                          /\ \A c \in Accepted : \A i \in 1..Len(Written(c)) :
                                /\ Written(c)[i].tag = messageAwareness
                                /\ Written(c)[i].origin = a
DispatchByTag == [][RoutingStep]_vars

\* A tag-0 frame put an update into the document and a tag-1 frame put an
\* entry into the presence table, which was announced to another connection
\* with the sender as origin.
RoutingWitness ==
    /\ Len(frames) = 2
    /\ \E d \in DOMAIN room :
          /\ room[d].ydoc # {}
          /\ 7 \in DOMAIN room[d].states
    /\ \E c \in Accepted : \E i \in 1..Len(out[c]) :
          /\ out[c][i].tag = messageAwareness /\ out[c][i].frame # 0
          /\ out[c][i].origin = frames[out[c][i].frame].conn
          /\ out[c][i].origin # c


\* C31 (Closed is terminal).  An accepted connection stays accepted and a
\* closed one stays closed with its closure unchanged; from the step that
\* closes it on, it is a member of no room, no frame of it is handled and no
\* envelope is written to it; a connection is admitted only under a fresh
\* identity.
ClosedStep ==
    /\ \A c \in Accepted :
          /\ c \in Accepted'
          /\ conn[c].closed =>
                /\ conn'[c] = conn[c]
                /\ ~(FrameStep /\ frames'[Len(frames')].conn = c)
          /\ conn'[c].closed =>
                /\ out'[c] = out[c]
                /\ \A d \in DOMAIN room' : c \notin room'[d].conns
    /\ ConnectStep => Accepted' = Accepted \cup {NewConn} /\ ~conn'[NewConn].closed
ClosedIsTerminal == [][ClosedStep]_vars

\* A connection was closed, its room discarded, and a later connection to
\* the same room name went to a new instance.
ClosedWitness ==
    \E c, c2 \in Accepted :
        /\ conn[c].closed /\ c2 > c
        /\ conn[c2].roomName = conn[c].roomName
        /\ conn[c2].doc # conn[c].doc
        /\ c2 \in room[conn[c2].doc].conns


\* C32 (writes need an open transport).  Whatever a step writes (admission
\* messages, a sync reply, a broadcast), it writes only to connections whose
\* transport is OPEN; a connection accepted while its transport is not OPEN
\* is made a member, is written no admission message, and stays a member
\* until it is closed.
OpenOnlyStep ==
    /\ \A c \in Accepted' :
          /\ Written(c) # <<>> =>
                /\ conn'[c].readyState = "OPEN"
                /\ c \in Accepted => conn[c].readyState = "OPEN"
          /\ ~conn'[c].closed => c \in room'[conn'[c].doc].conns
    /\ ConnectStep /\ conn'[NewConn].readyState # "OPEN" =>
          /\ out'[NewConn] = <<>>
          /\ NewConn \in room'[conn'[NewConn].doc].conns
WritesOnlyWhenOpen == [][OpenOnlyStep]_vars

\* A connection accepted while not OPEN is a member and holds nothing,
\* although a frame of another member was broadcast or answered meanwhile.
OpenOnlyWitness ==
    \E c, a \in Accepted :
        /\ conn[c].readyState = "CLOSING" /\ out[c] = <<>> /\ IsMember(c)
        /\ a # c /\ conn[a].doc = conn[c].doc
        /\ \E i \in 1..Len(out[a]) : out[a][i].frame # 0


\* C33 (failure containment across rooms).  A step that handles a frame of a
\* connection (handled, dropped or throwing, with or without a failing send),
\* its error or its close leaves every room instance other than that
\* connection's as it was (members, document, presence table), leaves the
\* registry entry of every other room name as it was, and writes nothing to a
\* connection of another room.
EventConn ==
    IF FrameStep THEN frames'[Len(frames')].conn
    ELSE CHOOSE c \in Accepted : conn'[c] # conn[c]
ContainStep ==
    ~ConnectStep =>
        LET c == EventConn
        IN /\ \A d \in DOMAIN room' :
                d # conn[c].doc => d \in DOMAIN room /\ room'[d] = room[d]
           /\ \A n \in DOMAIN docs \cup DOMAIN docs' :
                n # conn[c].roomName =>
                    /\ n \in DOMAIN docs /\ n \in DOMAIN docs'
                    /\ docs'[n] = docs[n]
           /\ \A y \in Accepted :
                conn[y].doc # conn[c].doc => Written(y) = <<>>
FailureContainment == [][ContainStep]_vars

\* In one room a send failed and a connection was closed, while a connection
\* of another room stayed a member of its registered room and holds nothing
\* but its admission messages.
ContainWitness ==
    \E b, z, y \in Accepted :
        /\ \E i \in 1..Len(out[b]) : out[b][i].failed
        /\ conn[z].closed /\ conn[z].doc = conn[b].doc
        /\ conn[y].doc # conn[b].doc /\ IsMember(y)
        /\ Has(docs, conn[y].roomName) /\ docs[conn[y].roomName] = conn[y].doc
        /\ \A i \in 1..Len(out[y]) : out[y][i].frame = 0

\* C34 (late-joiner catch-up).  While a room instance has a member, every
\* struct an update frame carried stays in its document: a handled update
\* leaves its structs there, no step takes a struct away, and a connection that
\* joins under the room's name is admitted to that same instance.  A
\* state-vector query of an open connection is then answered to that
\* connection only, with one reply holding every struct of the instance's
\* document that the state vector lacks, and nothing the document lacks.
Lasting(d) == d \in DOMAIN room /\ room[d].conns # {} /\ room'[d].conns # {}
CatchUpStep ==
    /\ \A d \in DOMAIN room : Lasting(d) => room[d].ydoc \subseteq room'[d].ydoc
    /\ ConnectStep =>
          LET n == conn'[NewConn].roomName
          IN Has(docs, n) /\ room[docs[n]].conns # {} =>
                conn'[NewConn].doc = docs[n]
    /\ \A a \in Accepted, f \in CatchUpUpdates :
          MessageCatchUp(a, f) => f.ids \subseteq room'[conn[a].doc].ydoc
    /\ \A a \in Accepted, f \in CatchUpQueries :
          MessageCatchUp(a, f) /\ IsOpen(a) =>
              /\ Len(Written(a)) = 1
              /\ Written(a)[1].tag = messageSync /\ Written(a)[1].sub = "step2"
              /\ room[conn[a].doc].ydoc \ f.ids \subseteq Written(a)[1].ids
              /\ Written(a)[1].ids \subseteq room[conn[a].doc].ydoc
              /\ \A c \in Accepted \ {a} : Written(c) = <<>>
LateJoinerCatchUp == [][CatchUpStep]_vars

\* A connection that joined after an update was applied, while the writer was
\* still a member, asked with a state vector lacking the struct and holds a
\* reply that carries it; the writer holds nothing from that frame.
CatchUpWitness ==
    \E a, b \in Accepted :
        /\ a < b /\ conn[a].doc = conn[b].doc /\ IsMember(a) /\ IsMember(b)
        /\ Len(frames) >= 2 /\ frames[1].conn = a /\ frames[1].emitted
        /\ frames[2].conn = b
        /\ \A i \in 1..Len(out[b]) : out[b][i].frame # 0 => out[b][i].frame = 2
        /\ \E i \in 1..Len(out[b]) :
              /\ out[b][i].frame = 2 /\ out[b][i].sub = "step2"
              /\ out[b][i].ids # {}
        /\ \A i \in 1..Len(out[a]) : out[a][i].frame = 0

\* C35 (one initialization per Editor).  Between the construction of the
\* Editor and ngOnDestroy, whatever the order of effect runs, 'sync' events of
\* the provider and completions of the editor's creation, the Editor has
\* started Manager.initializeEditor at most once.
InitializeEditorOnce ==
    calls.initializeEditor <= 1

\* C36 (provider invariant).  Whatever calls of initialize, disconnect and
\* reconnect were made, isInitialized is true exactly when a provider is held,
\* and at most one provider exists that has not been destroyed.
ProviderInvariant ==
    /\ collab.isInitialized <=> collab.provider # 0
    /\ Cardinality(LiveProviders(providers)) <= 1

\* initialize, disconnect and reconnect have each been called; the second
\* provider is held and the first one destroyed.
ProviderWitness ==
    /\ calls.initialize > 0 /\ calls.disconnect > 0 /\ calls.reconnect > 0
    /\ collab.provider = 2 /\ collab.isInitialized
    /\ providers[1].destroyed

\* C37 (one local document).  Every step leaves the service's document the
\* one its constructor created; initialize, disconnect and reconnect leave the
\* shared text as it was, so getCurrentContent returns after reconnect (and
\* after disconnect or initialize) what it returned before; every provider the
\* service constructs is bound to that document.
DocumentStep ==
    /\ collab'.ydoc = collab.ydoc /\ collab.ydoc = 1
    /\ calls' # calls /\ calls'.sync = calls.sync
          => GetCurrentContent(collab') = GetCurrentContent(collab)
    /\ \A newRoomId \in RoomIds :
          CollabReconnect(newRoomId)
              => /\ providers'[collab'.provider].room = newRoomId
                 /\ providers'[collab'.provider].doc = collab.ydoc
    /\ \A p \in DOMAIN providers' : providers'[p].doc = collab.ydoc
OneLocalDocument == [][DocumentStep]_vars

\* The service holds text and reconnect has moved it from one room to the
\* other: the first provider is destroyed, the text is there and the new
\* provider is bound to the document.
DocumentWitness ==
    /\ calls.reconnect > 0 /\ Len(providers) = 2
    /\ providers[1].destroyed /\ collab.provider = 2
    /\ providers[1].room # providers[2].room
    /\ GetCurrentContent(collab) # << >>
    /\ providers[2].doc = collab.ydoc

\* C38 (extensions need a provider).  A call of getCollaborationExtensions
\* throws exactly when no provider is held, and otherwise returns the
\* extension binding the shared text to the held provider's awareness.  A
\* call would throw in every state before the first initialize or reconnect
\* and in the state every disconnect leaves, and would return in the state
\* every initialize or reconnect leaves.
ExtensionsStep ==
    /\ CollabGetExtensions =>
          /\ calls'.extensions.threw <=> collab.provider = 0
          /\ ~calls'.extensions.threw =>
                calls'.extensions.extensions = <<YCollab(collab.ydoc, collab.provider)>>
    /\ calls.initialize = 0 /\ calls.reconnect = 0 =>
          GetCollaborationExtensions(collab).threw
    /\ calls'.disconnect > calls.disconnect =>
          GetCollaborationExtensions(collab').threw
    /\ calls'.initialize > calls.initialize \/ calls'.reconnect > calls.reconnect =>
          ~GetCollaborationExtensions(collab').threw
ExtensionsNeedProvider == [][ExtensionsStep]_vars

\* After initialize and then disconnect, a call threw.
ExtensionsThrewWitness ==
    /\ calls.initialize = 1 /\ calls.disconnect = 1 /\ calls.reconnect = 0
    /\ collab.provider = 0
    /\ calls.extensions.called /\ calls.extensions.threw
    /\ calls.extensions.after = 2

====
